---- MODULE Spec2Model ----
(***************************************************************************)
(* A model of the miniscan document scanner: the detection cascade of the  *)
(* WebView engine (detectDocument), the live-preview loop and the capture  *)
(* of CameraScanner, the ImageProcessor bridge with the engine's message   *)
(* handler and its rectifier, and the library flow of the scan screen.     *)
(*                                                                         *)
(* Each part has its own specification over its own variables; the other   *)
(* variables keep their initial values under it.                           *)
(***************************************************************************)
EXTENDS Integers, Sequences, FiniteSets, TLC

VARIABLES
    \* ---- engine: detectDocument (src/unnamed/part_001:1046-1090)
    dpc,        \* position in the cascade
    dImg,       \* the decoded image [ok, ow, oh] of the request
    dW, dH,     \* working size after the 500px downscale
    dTry,       \* loop index inside a strategy (ti / pol / ri)
    dCnt,       \* hull approximations examined in the current round
    dBest,      \* bestQuad of the contour/segment search (pixel points) or <<>>
    dBestArea,  \* twice bestArea
    dLog,       \* strategies that have returned so far, with what they returned
    dResult     \* what the promise resolved to: Pending, None or a quad

detVars == <<dpc, dImg, dW, dH, dTry, dCnt, dBest, dBestArea, dLog, dResult>>

VARIABLES
    \* ---- CameraScanner (src/components/scanner/CameraScanner.tsx:34-323)
    cameraReady,      \* useState cameraReady
    isCapturing,      \* useState isCapturing, as of the last render
    layout,           \* useState layout
    timers,           \* pending setTimeout(detectLoop, ...) calls, oldest first
    detectingRef,     \* detectingRef.current
    passes,           \* preview passes between their first line and their last
    lastCornersRef,   \* lastCornersRef.current
    lastDetectAge,    \* Date.now() - lastDetectTimeRef.current, up to StaleMs
    detectedCorners,  \* useState detectedCorners: what the overlay shows
    hits,             \* detections accepted so far
    cpc,              \* where capturePhoto stands
    pollWait,         \* ms left of capturePhoto's 50 ms wait
    lastTick,         \* how the last finished preview pass ended
    lastCall          \* what the last call of detectLoop did at its guard

camVars == <<cameraReady, isCapturing, layout, timers, detectingRef, passes,
             lastCornersRef, lastDetectAge, detectedCorners, hits, cpc, pollWait,
             lastTick, lastCall>>

VARIABLES
    \* ---- ImageProcessor (src/components/scanner/CameraScanner.tsx:418-520)
    \* ---- and the engine's message handler (src/unnamed/part_001:1205-1257)
    webViewRef,                \* webViewRef.current is set
    calls,                     \* the calls made so far, with their promises
    pendingRef,                \* pendingRef.current
    detectPendingRef,          \* detectPendingRef.current
    filterPreviewsPendingRef,  \* filterPreviewsPendingRef.current
    toWebView,                 \* requests posted to the WebView, oldest first
    decoding,                  \* requests whose image is being decoded
    posted,                    \* every message the engine has posted, in order
    delivered                  \* how many of them onMessage has handled

procVars == <<webViewRef, calls, pendingRef, detectPendingRef,
              filterPreviewsPendingRef, toWebView, decoding, posted, delivered>>

VARIABLES
    \* ---- processImage's numerics on their own (src/unnamed/part_001:24-83)
    rPc,   \* where the computation stands
    rIn,   \* the request: corners, source canvas size, target size
    rM,    \* solve's M
    rCol,  \* solve's col
    rRow,  \* solve's row, or the i of its back substitution
    rX,    \* solve's x
    rOut   \* what came of it: Pending, an error or an image

rectVars == <<rPc, rIn, rM, rCol, rRow, rX, rOut>>

VARIABLES
    \* ---- ScanScreen (src/modules/document-detection/src/index.ts:70-214)
    step,             \* useState step
    imageUri,         \* useState imageUri: the asset shown, 0 for null
    screenCorners,    \* useState corners
    screenDetecting,  \* useState detecting
    base64Ref,        \* base64Ref.current: the asset it was read from, 0 for null
    picks             \* the runs of handlePickLibrary so far

scrVars == <<step, imageUri, screenCorners, screenDetecting, base64Ref, picks>>

VARIABLES
    \* ---- ScanScreen: doProcess and handleNativeScan (index.ts:87-115, 161-179)
    result,           \* useState result: None for null, or what was rectified
    processing,       \* useState processing
    enhanceMode,      \* useState enhanceMode
    run,              \* the run of doProcess, if one is under way, and how the last ended
    scan              \* the run of handleNativeScan, and how many there were

flowVars == <<result, processing, enhanceMode, run, scan>>

VARIABLES
    \* ---- the quad a detector returns (part_001:588-595, 836-868, 1033-1041)
    qBy,    \* the detector that returned, or "idle"
    qSize,  \* the size of the image it worked on
    qIn,    \* what its search had found
    qOut    \* the corner record it returned

quadVars == <<qBy, qSize, qIn, qOut>>

VARIABLES
    \* ---- orderCorners on its own (src/unnamed/part_001:494-499)
    ocStep,   \* how many times orderCorners was applied
    ocPts,    \* the list of four points
    ocOnce,   \* orderCorners(pts)
    ocTwice   \* orderCorners(orderCorners(pts))

orderVars == <<ocStep, ocPts, ocOnce, ocTwice>>

VARIABLES
    \* ---- warp on its own (src/unnamed/part_001:86-121)
    wPc,      \* "idle", "loop" (inside the two for loops) or "done"
    wIn,      \* the arguments srcData, sw, sh, H_inv, dw, dh
    wDx,      \* loop variable dx
    wDy,      \* loop variable dy
    wOut,     \* out, a sequence of dw*dh pixels <<r, g, b, a>>
    wVisits   \* how often the loop body ran for each pixel of out

warpVars == <<wPc, wIn, wDx, wDy, wOut, wVisits>>

VARIABLES
    \* ---- enhanceBW on its own (src/unnamed/part_001:124-167)
    bwPc,    \* "idle" or "done"
    bwIn,    \* the arguments data (as passed), w, h
    bwData   \* data after the call

bwVars == <<bwPc, bwIn, bwData>>

VARIABLES
    \* ---- previewFilters from warp on (src/unnamed/part_001:1182-1200)
    pvPc,       \* "idle", "loop" or "done"
    pvWarped,   \* the buffer warped
    pvWarped0,  \* what warp returned (history)
    pvMi,       \* loop variable mi
    pvResults   \* results: for each mode done, the pixels that were encoded

previewVars == <<pvPc, pvWarped, pvWarped0, pvMi, pvResults>>

VARIABLES
    \* ---- the ad service (src/unnamed/part_000)
    adToday,        \* the day getTodayString() names
    adStore,        \* the item stored under STORAGE_KEY: date (0: no item) and count
    interstitial,   \* 0 for null, else the number of the InterstitialAd in use
    adLoaded,       \* adLoaded
    adCalls         \* the calls of checkAndShowAd

adVars == <<adToday, adStore, interstitial, adLoaded, adCalls>>

VARIABLES
    \* ---- the calls of capturePhoto (CameraScanner.tsx:181-201), history
    capInFlight,     \* calls that passed line 182 and have not returned
    onCaptureCalls,  \* calls of onCapture
    lastTap,         \* "ignored" once a tap returned at line 182 during the shot
    cameraMounted,   \* cameraRef.current is not null: CameraView is rendered
    layoutDue        \* CameraView was mounted again and its wrapper's onLayout is to come

tapVars == <<capInFlight, onCaptureCalls, lastTap, cameraMounted, layoutDue>>

VARIABLES
    \* ---- the smoothing of a detected preview quad (CameraScanner.tsx:113-122)
    smPc,           \* "idle", or "done" once the branch has run
    smPrev,         \* lastCornersRef.current when the detection arrived
    smDet,          \* the detected quad after remapCornersForPreview
    smNow,          \* what Date.now() returned
    smLast,         \* lastCornersRef.current afterwards
    smTime,         \* lastDetectTimeRef.current afterwards
    smShown         \* detectedCorners afterwards

smoothVars == <<smPc, smPrev, smDet, smNow, smLast, smTime, smShown>>

VARIABLES
    \* ---- the hysteresis of cannyEdges (src/unnamed/part_001:308-334)
    cnPc,          \* "idle", "sweep" (inside while (changed)), "done"
    cnIn,          \* edges as the thresholds classified it
    cnEdges,       \* edges
    cnChanged,     \* changed
    cnSweeps       \* passes of the while loop made so far

cannyVars == <<cnPc, cnIn, cnEdges, cnChanged, cnSweeps>>

vars == <<detVars, camVars, procVars, rectVars, scrVars, quadVars, orderVars, warpVars, bwVars, previewVars, adVars, tapVars, smoothVars, flowVars, cannyVars>>

None == [kind |-> "none"]
Pending == [kind |-> "pending"]

\* the sequence of the values f[1], f[2], ..., each computed once
AsSeq(f) == <<>> \o f

\* Op(v), with v computed once: var x = v; ... x ... x ...
Bind(v, Op(_)) == CHOOSE r \in {Op(x) : x \in {v}} : TRUE

\* Op(a, b), with a and b computed once
Bind2(a, b, Op(_, _)) == Bind(a, LAMBDA x : Bind(b, LAMBDA y : Op(x, y)))

Max(a, b) == IF a >= b THEN a ELSE b
Min(a, b) == IF a <= b THEN a ELSE b
Abs(a) == IF a < 0 THEN -a ELSE a

(***************************************************************************)
(* Natural numbers beyond 32 bits, as little-endian sequences of limbs in  *)
(* base 2^13 without leading zero limbs (<<>> is 0).  They carry the       *)
(* products of the geometric tests on 500px images and the 53-bit          *)
(* significands of the engine's IEEE-754 doubles.                          *)
(***************************************************************************)
Base == 2 ^ 13

RECURSIVE BNorm(_)
BNorm(a) == IF a = <<>> THEN <<>>
            ELSE IF a[Len(a)] = 0 THEN BNorm(SubSeq(a, 1, Len(a) - 1))
            ELSE a

RECURSIVE BI(_)
BI(n) == IF n = 0 THEN <<>> ELSE <<n % Base>> \o BI(n \div Base)

RECURSIVE BAddC(_, _, _)
BAddC(a, b, c) ==
    IF a = <<>> /\ b = <<>> THEN (IF c = 0 THEN <<>> ELSE <<c>>)
    ELSE LET x == (IF a = <<>> THEN 0 ELSE a[1]) + (IF b = <<>> THEN 0 ELSE b[1]) + c
         IN <<x % Base>> \o BAddC(IF a = <<>> THEN <<>> ELSE Tail(a),
                                  IF b = <<>> THEN <<>> ELSE Tail(b), x \div Base)

BAdd(a, b) == BAddC(a, b, 0)

\* a - b for a >= b
RECURSIVE BSubC(_, _, _)
BSubC(a, b, c) ==
    IF a = <<>> THEN <<>>
    ELSE LET x == a[1] - (IF b = <<>> THEN 0 ELSE b[1]) - c
         IN <<x % Base>> \o BSubC(Tail(a), IF b = <<>> THEN <<>> ELSE Tail(b),
                                  IF x < 0 THEN 1 ELSE 0)

BSub(a, b) == BNorm(BSubC(a, b, 0))

\* a * d for a limb-sized d
RECURSIVE BMulSmallC(_, _, _)
BMulSmallC(a, d, c) ==
    IF a = <<>> THEN (IF c = 0 THEN <<>> ELSE <<c>>)
    ELSE LET x == a[1] * d + c
         IN <<x % Base>> \o BMulSmallC(Tail(a), d, x \div Base)

BMulSmall(a, d) == IF d = 0 THEN <<>> ELSE BMulSmallC(a, d, 0)

RECURSIVE BMul(_, _)
BMul(a, b) ==
    IF a = <<>> \/ b = <<>> THEN <<>>
    ELSE BAdd(BMulSmall(b, a[1]),
              LET r == BMul(Tail(a), b) IN IF r = <<>> THEN <<>> ELSE <<0>> \o r)

\* -1, 0, 1 as a < b, a = b, a > b
RECURSIVE BCmpFrom(_, _, _)
BCmpFrom(a, b, i) ==
    IF i = 0 THEN 0
    ELSE IF a[i] < b[i] THEN -1
    ELSE IF a[i] > b[i] THEN 1
    ELSE BCmpFrom(a, b, i - 1)

BCmp(a, b) == IF Len(a) < Len(b) THEN -1
              ELSE IF Len(a) > Len(b) THEN 1
              ELSE BCmpFrom(a, b, Len(a))

(***************************************************************************)
(* The engine's numbers: IEEE-754 doubles [s, m, e] of value               *)
(* (-1)^s * m * 2^e, with m a 53-bit natural (2^52 <= m < 2^53) in limbs,  *)
(* or m = <<>> for zero.  Results are rounded to nearest, ties to even.    *)
(* Exponents stay far inside the double range for the inputs of the model, *)
(* so overflow, subnormals and the sign of zero are left out.              *)
(***************************************************************************)
RECURSIVE Bits(_)
Bits(x) == IF x = 0 THEN 0 ELSE 1 + Bits(x \div 2)

BitLen(m) == IF m = <<>> THEN 0 ELSE 13 * (Len(m) - 1) + Bits(m[Len(m)])

RECURSIVE Zeros(_)
Zeros(d) == IF d = 0 THEN <<>> ELSE <<0>> \o Zeros(d - 1)

\* m * 2^k
BShl(m, k) == IF m = <<>> THEN <<>> ELSE Zeros(k \div 13) \o BMulSmall(m, 2 ^ (k % 13))

\* floor(m / 2^k)
BShr(m, k) ==
    LET d == k \div 13
        r == k % 13
        x == IF d >= Len(m) THEN <<>> ELSE SubSeq(m, d + 1, Len(m))
    IN BNorm([i \in 1..Len(x) |->
                (x[i] \div (2 ^ r))
                + (IF i < Len(x) THEN (x[i + 1] % (2 ^ r)) * (2 ^ (13 - r)) ELSE 0)])

\* m mod 2^k # 0
BLowBits(m, k) ==
    \/ \E i \in 1..Min(k \div 13, Len(m)) : m[i] # 0
    \/ /\ (k \div 13) + 1 <= Len(m)
       /\ m[(k \div 13) + 1] % (2 ^ (k % 13)) # 0

BOdd(m) == m # <<>> /\ m[1] % 2 = 1

FZero == [s |-> 0, m |-> <<>>, e |-> 0]

\* the double nearest to (-1)^s * (M + sticky) * 2^E, sticky standing for a
\* positive amount under one unit of M
FRound(s, M, E, sticky) ==
    IF M = <<>> THEN FZero
    ELSE LET L == BitLen(M)
         IN IF L <= 53 THEN [s |-> s, m |-> BShl(M, 53 - L), e |-> E - (53 - L)]
            ELSE LET k == L - 53
                     r1 == BShr(M, k - 1)
                     q == BShr(r1, 1)
                     up == BOdd(r1) /\ (BLowBits(M, k - 1) \/ sticky \/ BOdd(q))
                     q2 == IF up THEN BAdd(q, <<1>>) ELSE q
                 IN IF BitLen(q2) = 54
                    THEN [s |-> s, m |-> BShr(q2, 1), e |-> E + k + 1]
                    ELSE [s |-> s, m |-> q2, e |-> E + k]

FromInt(n) == FRound(IF n < 0 THEN 1 ELSE 0, BI(Abs(n)), 0, FALSE)

FNeg(a) == IF a.m = <<>> THEN a ELSE [a EXCEPT !.s = 1 - a.s]
FAbs(a) == [a EXCEPT !.s = 0]

FMul(a, b) ==
    IF a.m = <<>> \/ b.m = <<>> THEN FZero
    ELSE FRound((a.s + b.s) % 2, BMul(a.m, b.m), a.e + b.e, FALSE)

FAdd(a, b) ==
    IF a.m = <<>> THEN b
    ELSE IF b.m = <<>> THEN a
    ELSE LET hi == IF a.e >= b.e THEN a ELSE b
             lo == IF a.e >= b.e THEN b ELSE a
             d == hi.e - lo.e
         IN IF d > 64 THEN hi
            ELSE LET M1 == BShl(hi.m, d)
                     c == BCmp(M1, lo.m)
                     big == IF c >= 0 THEN M1 ELSE lo.m
                     small == IF c >= 0 THEN lo.m ELSE M1
                 IN IF hi.s # lo.s /\ c = 0 THEN FZero
                    ELSE FRound(IF c >= 0 THEN hi.s ELSE lo.s,
                                IF hi.s = lo.s THEN BAdd(M1, lo.m) ELSE BSub(big, small),
                                lo.e, FALSE)

FSub(a, b) == FAdd(a, FNeg(b))

\* <<floor(r * 2^n / d), (r * 2^n) mod d>> for r < d and n >= 1, the n bits
\* found half by half
RECURSIVE DivBits(_, _, _)
DivBits(r, d, n) ==
    IF n = 1
    THEN LET r2 == BMulSmall(r, 2)
         IN IF BCmp(r2, d) >= 0 THEN <<<<1>>, BSub(r2, d)>> ELSE <<<<>>, r2>>
    ELSE Bind(DivBits(r, d, n \div 2), LAMBDA top :
         Bind(DivBits(top[2], d, n - (n \div 2)), LAMBDA low :
              <<BAdd(BShl(top[1], n - (n \div 2)), low[1]), low[2]>>))

FDiv(a, b) ==
    IF a.m = <<>> THEN FZero
    ELSE LET ge == BCmp(a.m, b.m) >= 0
         IN Bind(DivBits(IF ge THEN BSub(a.m, b.m) ELSE a.m, b.m, 55), LAMBDA qr :
                 FRound((a.s + b.s) % 2,
                        IF ge THEN BAdd(BShl(<<1>>, 55), qr[1]) ELSE qr[1],
                        a.e - b.e - 55, qr[2] # <<>>))

\* |a| < |b|
FAbsLess(a, b) ==
    IF b.m = <<>> THEN FALSE
    ELSE IF a.m = <<>> THEN TRUE
    ELSE a.e < b.e \/ (a.e = b.e /\ BCmp(a.m, b.m) = -1)

\* a < b
FLess(a, b) ==
    IF a.m # <<>> /\ a.s = 1
    THEN b.m = <<>> \/ b.s = 0 \/ FAbsLess(b, a)
    ELSE b.m # <<>> /\ b.s = 0 /\ FAbsLess(a, b)

RECURSIVE BToInt(_)
BToInt(m) == IF m = <<>> THEN 0 ELSE m[1] + Base * BToInt(Tail(m))

\* Math.floor(a) for 0 <= a < 2^24
FloorInt(a) ==
    IF a.m = <<>> THEN 0
    ELSE IF a.e >= 0 THEN BToInt(BShl(a.m, a.e))
    ELSE BToInt(BShr(a.m, -a.e))

\* Math.round(a) for 0 <= a < 2^24
MathRound(a) == IF a.m = <<>> THEN 0 ELSE (FloorInt([a EXCEPT !.e = a.e + 1]) + 1) \div 2

F0 == FromInt(0)
F1 == FromInt(1)

\* the double 0.1 = 0x1.999999999999ap-4
FTenth == [s |-> 0, m |-> <<6554, 3276, 1638, 4915, 1>>, e |-> -56]

\* the literal 1e-10 = 0x1.b7cdfd9d7bdbbp-34
Eps == [s |-> 0, m |-> <<7611, 3773, 6134, 5881, 1>>, e |-> -86]


(***************************************************************************)
(* Geometry on pixel points <<x, y>>.  The candidates of this model have   *)
(* integer pixel coordinates: sums and products of coordinates are exact   *)
(* in doubles, the angle bounds are decided through cos(30 deg)^2 = 3/4    *)
(* (no integer vectors meet at exactly 30 or 150 degrees), and the two     *)
(* thresholds that are multiplied by the double 0.1 are compared as the    *)
(* doubles they are.                                                       *)
(***************************************************************************)
Cross(a, b, c) == (b[1] - a[1]) * (c[2] - b[2]) - (b[2] - a[2]) * (c[1] - b[1])

Sq(p, q) == (p[1] - q[1]) * (p[1] - q[1]) + (p[2] - q[2]) * (p[2] - q[2])

\* pts[(i + k) % n], 1-based
At(pts, i) == pts[((i - 1) % Len(pts)) + 1]

\* twice contourArea(pts): the shoelace sum
contourArea2(pts) ==
    LET term(i) == pts[i][1] * At(pts, i + 1)[2] - At(pts, i + 1)[1] * pts[i][2]
        sum[i \in 0..Len(pts)] == IF i = 0 THEN 0 ELSE sum[i - 1] + term(i)
    IN Abs(sum[Len(pts)])

isConvex(pts) ==
    LET n == Len(pts)
        cr(i) == Cross(pts[i], At(pts, i + 1), At(pts, i + 2))
        nz == {i \in 1..n : cr(i) # 0}
    IN /\ n >= 3
       /\ nz # {}
       /\ \/ \A i \in nz : cr(i) > 0
          \/ \A i \in nz : cr(i) < 0

\* a sort that is not stable: an element is inserted before its equals
RECURSIVE InsertByUnstable(_, _, _)
InsertByUnstable(s, p, k) ==
    IF s = <<>> THEN <<p>>
    ELSE IF p[k] <= s[1][k] THEN <<p>> \o s
    ELSE <<s[1]>> \o InsertByUnstable(Tail(s), p, k)

\* Array.prototype.sort with comparator a[k] - b[k]: a stable sort, here by
\* insertion of each element after the elements that are not greater
RECURSIVE InsertBy(_, _, _)
InsertBy(s, p, k) ==
    IF s = <<>> THEN <<p>>
    ELSE IF p[k] < s[1][k] THEN <<p>> \o s
    ELSE <<s[1]>> \o InsertBy(Tail(s), p, k)

RECURSIVE SortBy(_, _)
SortBy(s, k) ==
    IF s = <<>> THEN <<>>
    ELSE InsertBy(SortBy(SubSeq(s, 1, Len(s) - 1), k), s[Len(s)], k)

orderCorners(pts) ==
    LET sorted == SortBy(pts, 2)
        top == SortBy(SubSeq(sorted, 1, 2), 1)
        bot == SortBy(SubSeq(sorted, 3, 4), 1)
    IN <<top[1], top[2], bot[2], bot[1]>>

\* 4*dot^2 > 3*l1*l2: the angle between two edges of squared lengths l1, l2
\* and scalar product dot is under 30 degrees (dot > 0) or over 150 (dot < 0)
AngleOutside(dot, l1, l2) ==
    BCmp(BMulSmall(BMul(BI(Abs(dot)), BI(Abs(dot))), 4),
         BMulSmall(BMul(BI(l1), BI(l2)), 3)) = 1

\* Math.sqrt(l) < Math.min(w, h) * 0.1 for an integer l. The square root is
\* the integer min/10 when 100*l = min*min and is then compared with the
\* double product; otherwise it is further from min/10 than any rounding.
EdgeTooShort(l, w, h) ==
    LET least == Min(w, h)
    IN IF 100 * l = least * least
       THEN FAbsLess(FromInt(least \div 10), FMul(FromInt(least), FTenth))
       ELSE 100 * l < least * least

\* contourArea < 0.1 * w * h, for twice the area.  When the area is w*h/10
\* exactly the test is that of the doubles area and 0.1 * w * h; otherwise
\* the area is further from w*h/10 than any rounding.
AreaTooSmall(a2, w, h) ==
    IF 5 * a2 = w * h
    THEN FAbsLess(FDiv(FromInt(a2), FromInt(2)), FMul(FMul(FTenth, FromInt(w)), FromInt(h)))
    ELSE 5 * a2 < w * h

validateQuad(pts, w, h) ==
    /\ isConvex(pts)
    /\ ~AreaTooSmall(contourArea2(pts), w, h)
    /\ \A i \in 1..Len(pts) :
          LET a == At(pts, i + Len(pts) - 1)
              b == pts[i]
              c == At(pts, i + 1)
              dot == (a[1] - b[1]) * (c[1] - b[1]) + (a[2] - b[2]) * (c[2] - b[2])
          IN /\ ~EdgeTooShort(Sq(a, b), w, h)
             /\ ~EdgeTooShort(Sq(c, b), w, h)
             /\ ~AngleOutside(dot, Sq(a, b), Sq(c, b))

\* Numbers a + b*sqrt(2) with integer a and b, written <<a, b>>: the
\* coordinates of the corners the strategies compute
ZI(n) == <<n, 0>>
ZAdd(x, y) == <<x[1] + y[1], x[2] + y[2]>>
ZSub(x, y) == <<x[1] - y[1], x[2] - y[2]>>
ZMul(x, y) == <<x[1] * y[1] + 2 * x[2] * y[2], x[1] * y[2] + x[2] * y[1]>>
ZScale(k, x) == <<k * x[1], k * x[2]>>

\* the sign of a + b*sqrt(2): where a and b disagree, that of its product
\* with 1 + sqrt(2), whose parts are smaller
RECURSIVE ZSign(_)
ZSign(z) ==
    IF z[1] = 0 /\ z[2] = 0 THEN 0
    ELSE IF z[1] >= 0 /\ z[2] >= 0 THEN 1
    ELSE IF z[1] <= 0 /\ z[2] <= 0 THEN -1
    ELSE ZSign(<<z[1] + 2 * z[2], z[1] + z[2]>>)

ZLess(x, y) == ZSign(ZSub(x, y)) = -1
ZAbs(x) == IF ZSign(x) = -1 THEN ZScale(-1, x) ELSE x
ZMax(x, y) == IF ZLess(x, y) THEN y ELSE x
ZMin(x, y) == IF ZLess(y, x) THEN y ELSE x

\* x / d for d one of 1, -1, 2, -2, sqrt(2), -sqrt(2) and a quotient that is
\* again of the form a + b*sqrt(2)
ZDiv(x, d) ==
    IF d[2] = 0 THEN <<x[1] \div d[1], x[2] \div d[1]>>
    ELSE <<(2 * x[2]) \div (2 * d[2]), x[1] \div (2 * d[2])>>

Sqrt2 == <<0, 1>>

\* integer pixel points as such numbers
ZPts(pts) == AsSeq([i \in 1..Len(pts) |-> <<ZI(pts[i][1]), ZI(pts[i][2])>>])

\* Math.max(0, Math.min(1, x / w)) as the fraction <<numerator, w>>
\* a normalisation that divides without clamping
Norm01Unclamped(x, w) == <<x, w>>

Norm01(x, w) == <<ZMax(ZI(0), ZMin(ZI(w), x)), w>>

\* the corner record {tl, tr, br, bl} of normalised points
Normalise(pts, w, h) ==
    [tl |-> <<Norm01(pts[1][1], w), Norm01(pts[1][2], h)>>,
     tr |-> <<Norm01(pts[2][1], w), Norm01(pts[2][2], h)>>,
     br |-> <<Norm01(pts[3][1], w), Norm01(pts[3][2], h)>>,
     bl |-> <<Norm01(pts[4][1], w), Norm01(pts[4][2], h)>>]

(***************************************************************************)
(* detectDocument: the cascade.  What the image analysis upstream of each  *)
(* strategy's acceptance code finds (edge pixels, RANSAC lines, component  *)
(* hulls, Hough peaks) is an input of the model, drawn from the grids      *)
(* below; the acceptance code itself is modelled as written.               *)
(***************************************************************************)
maxSide == 500

\* Math.round(n / d) for n, d > 0
RoundDiv(n, d) == (2 * n + d) \div (2 * d)

\* the payloads: one that does not decode, then decoded sizes
Images ==
    { [ok |-> FALSE, ow |-> 0, oh |-> 0],
      [ok |-> TRUE, ow |-> 100, oh |-> 100],
      [ok |-> TRUE, ow |-> 200, oh |-> 100],
      [ok |-> TRUE, ow |-> 1000, oh |-> 500],
      [ok |-> TRUE, ow |-> 1, oh |-> 2000],
      [ok |-> TRUE, ow |-> 76, oh |-> 608] }

\* w = Math.round(ow * scale), scale = maxSide / Math.max(ow, oh) or 1.  The
\* doubles scale and ow * scale are within 1e-13 of the quotients they stand
\* for, so the rounding is that of the exact quotient unless that one ends in
\* a half, where the doubles are computed
Scaled(n, ow, oh) ==
    LET most == Max(ow, oh)
    IN IF most <= maxSide THEN n
       ELSE IF (2 * n * maxSide) % most = 0 /\ ((2 * n * maxSide) \div most) % 2 = 1
       THEN MathRound(FMul(FromInt(n), FDiv(FromInt(maxSide), FromInt(most))))
       ELSE RoundDiv(n * maxSide, most)

\* corner candidates of the RANSAC strategy, in tenths of the image size
GridIdx == {-1, 0, 5, 10}

GridPts(w, h) == {<<(gx * w) \div 10, (gy * h) \div 10>> : gx \in GridIdx, gy \in GridIdx}

\* ransacLine fits a line through two edge pixels, and gradientRansacDetection
\* collects edge pixels in [1, w-2] x [1, h-2] only: the line through two
\* corners of a candidate crosses that rectangle
LineMeetsImage(p, q, w, h) ==
    \/ p = q
    \/ LET cs == {Cross(p, q, c) : c \in {<<1, 1>>, <<w - 2, 1>>, <<1, h - 2>>, <<w - 2, h - 2>>}}
       IN ~(\A c \in cs : c > 0) /\ ~(\A c \in cs : c < 0)

\* corners[] in the order pairs[0][i] x pairs[1][j]: c00, c01, c10, c11
RansacCands(w, h) ==
    {c \in [1..4 -> GridPts(w, h)] :
        /\ LineMeetsImage(c[1], c[2], w, h)
        /\ LineMeetsImage(c[3], c[4], w, h)
        /\ LineMeetsImage(c[1], c[3], w, h)
        /\ LineMeetsImage(c[2], c[4], w, h)}

RansacInBounds(c, w, h) ==
    \A i \in 1..4 :
        ~(\/ 100 * c[i][1] < -15 * Max(w, h)
          \/ 100 * c[i][1] > 100 * w + 15 * Max(w, h)
          \/ 100 * c[i][2] < -15 * Max(w, h)
          \/ 100 * c[i][2] > 100 * h + 15 * Max(w, h))

\* one pass of the threshFracs loop from its four intersections on:
\* a quad, or None for "continue"
RansacAccept(c, w, h) ==
    IF ~RansacInBounds(c, w, h) THEN None
    ELSE LET ordered == orderCorners(c)
         IN IF ~validateQuad(ordered, w, h) THEN None
            ELSE Normalise(ZPts(ordered), w, h)

\* hull pixels of a component that touches the border of the image
InsidePts(w, h) == {<<x, y>> : x \in {0, w \div 2, w - 1}, y \in {0, h - 1}}

\* hulls of components inside the image: a centred rectangle of 28% of the
\* width and height, and a centred rhombus as wide as the image and of 24%
\* of its height
InsideQuads(w, h) ==
    {<<<<(36 * w) \div 100, (36 * h) \div 100>>, <<(36 * w) \div 100, (64 * h) \div 100>>,
       <<(64 * w) \div 100, (64 * h) \div 100>>, <<(64 * w) \div 100, (36 * h) \div 100>>>>,
     <<<<0, h \div 2>>, <<w \div 2, (62 * h) \div 100>>,
       <<w - 1, h \div 2>>, <<w \div 2, (38 * h) \div 100>>>>}

\* the vertices of q from each of them on, in both directions
Turns(q) ==
    {[i \in 1..4 |-> At(q, i + k)] : k \in 0..3} \cup {[i \in 1..4 |-> At(q, k - i)] : k \in 5..8}

\* douglasPeucker keeps a subsequence of convexHull's output, which turns
\* the same way at every vertex (cross > 0) and has no collinear vertices
\* and lies inside a hull that passed hullArea <= 0.9 * w * h
HullQuads(w, h) ==
    {q \in [1..4 -> InsidePts(w, h)] \cup UNION {Turns(p) : p \in InsideQuads(w, h)} :
        /\ \A i \in 1..4 : Cross(q[i], At(q, i + 1), At(q, i + 2)) > 0
        /\ 10 * contourArea2(q) <= 18 * w * h}

\* the bestQuad/bestArea update on one 4-point approximation
BetterQuad(q, w, h, bestArea2) == validateQuad(q, w, h) /\ contourArea2(q) > bestArea2

\* what contourBasedDetection and segmentBasedDetection return for bestQuad
HullReturn(best, w, h) ==
    IF best = <<>> THEN None ELSE Normalise(ZPts(orderCorners(best)), w, h)

(***************************************************************************)
(* Hough peaks [deg, rho, votes] with theta = (deg * Math.PI) / 180, deg   *)
(* one of 0, 45 and 90.  Their intersections have coordinates a +          *)
(* b*sqrt(2) with integer a and b, written <<a, b>>.  The engine's doubles *)
(* are within 1e-12 of these numbers, and two of the numbers findBestQuad  *)
(* compares are either equal or more than 1e-6 apart: it is evaluated in   *)
(* exact arithmetic where no comparison on its way is between equal        *)
(* numbers, and in the engine's doubles otherwise (Math.cos(Math.PI / 2)   *)
(* is 6.1e-17, which puts a corner of a 90 degree line beside the exact    *)
(* one).  The quad returned is written with the exact coordinates.         *)
(***************************************************************************)
\* sqrt(2) * Math.cos(theta) and sqrt(2) * Math.sin(theta)
LCos(l) == IF l.deg = 0 THEN Sqrt2 ELSE IF l.deg = 45 THEN ZI(1) ELSE ZI(0)
LSin(l) == IF l.deg = 0 THEN ZI(0) ELSE IF l.deg = 45 THEN ZI(1) ELSE Sqrt2

\* the doubles 0.7071067811865476 = Math.cos(Math.PI / 4) and
\* 0.7071067811865475 = Math.sin(Math.PI / 4), one unit apart, and
\* 6.123233995736766e-17 = Math.cos(Math.PI / 2)
CosQuarter == [s |-> 0, m |-> <<7117, 5113, 1945, 3393, 1>>, e |-> -53]
SinQuarter == [s |-> 0, m |-> <<7116, 5113, 1945, 3393, 1>>, e |-> -53]
CosHalf == [s |-> 0, m |-> <<7175, 6306, 2444, 844, 1>>, e |-> -106]

\* Math.cos(l.theta) and Math.sin(l.theta)
FCos(l) == IF l.deg = 0 THEN F1 ELSE IF l.deg = 45 THEN CosQuarter ELSE CosHalf
FSin(l) == IF l.deg = 0 THEN F0 ELSE IF l.deg = 45 THEN SinQuarter ELSE F1

HoughRho(w, h) == {0, Min(w, h) \div 5, (2 * Min(w, h)) \div 5}

HoughLineSet(w, h) == [deg : {0, 90}, rho : HoughRho(w, h), votes : {1, 2}]

\* houghLines returns distinct peaks sorted by votes, highest first
HoughInputs(w, h) ==
    {ls \in UNION {[1..n -> HoughLineSet(w, h)] : n \in {3, 4}} :
        /\ \A i \in 1..(Len(ls) - 1) : ls[i].votes >= ls[i + 1].votes
        /\ \A i, j \in 1..Len(ls) :
              i # j => <<ls[i].deg, ls[i].rho>> # <<ls[j].deg, ls[j].rho>>}

\* <<x, y>>, or <<>> for null; det, x and y of the source are det2 / 2,
\* nx / det2 and ny / det2 here
lineIntersection(l1, l2) ==
    LET det2 == ZSub(ZMul(LCos(l1), LSin(l2)), ZMul(LCos(l2), LSin(l1)))
        nx == ZMul(Sqrt2, ZSub(ZScale(l1.rho, LSin(l2)), ZScale(l2.rho, LSin(l1))))
        ny == ZMul(Sqrt2, ZSub(ZScale(l2.rho, LCos(l1)), ZScale(l1.rho, LCos(l2))))
    IN IF ZSign(det2) = 0 THEN <<>>
       ELSE <<ZDiv(nx, det2), ZDiv(ny, det2)>>

\* lineIntersection in doubles
lineIntersectionF(l1, l2) ==
    Bind(FSub(FMul(FCos(l1), FSin(l2)), FMul(FCos(l2), FSin(l1))), LAMBDA det :
        IF FAbsLess(det, Eps) THEN <<>>
        ELSE <<Bind2(FMul(FromInt(l1.rho), FSin(l2)), FMul(FromInt(l2.rho), FSin(l1)),
                     LAMBDA a, b : Bind(FSub(a, b), LAMBDA n : FDiv(n, det))),
               Bind2(FMul(FromInt(l2.rho), FCos(l1)), FMul(FromInt(l1.rho), FCos(l2)),
                     LAMBDA a, b : Bind(FSub(a, b), LAMBDA n : FDiv(n, det)))>>)

\* rho / sin(theta) of a horizontal line, rho / cos(theta) of a vertical one
YAt(l) == ZDiv(ZMul(Sqrt2, ZI(l.rho)), LSin(l))
XAt(l) == ZDiv(ZMul(Sqrt2, ZI(l.rho)), LCos(l))

PosAt(l, axis) == IF axis = "y" THEN YAt(l) ELSE XAt(l)

\* the same in doubles
PosAtF(l, axis) == FDiv(FromInt(l.rho), IF axis = "y" THEN FSin(l) ELSE FCos(l))

\* the double position is the exact one: the line is at 0 or 90 degrees
\* (its divisor is 1) or its rho is 0
PosExact(l) == l.deg \in {0, 90} \/ l.rho = 0

\* two lines whose double positions are the same double
SamePos(l1, l2, axis) ==
    \/ l1.deg = l2.deg /\ l1.rho = l2.rho
    \/ PosExact(l1) /\ PosExact(l2) /\ PosAt(l1, axis) = PosAt(l2, axis)

\* two pairs of lines whose double scores are the same double: the votes
\* agree, and the positions do or all four are exact with one spread
SameScore(a, b, c, d, axis) ==
    /\ a.votes + b.votes = c.votes + d.votes
    /\ \/ SamePos(a, c, axis) /\ SamePos(b, d, axis)
       \/ SamePos(a, d, axis) /\ SamePos(b, c, axis)
       \/ /\ \A l \in {a, b, c, d} : PosExact(l)
          /\ ZAbs(ZSub(PosAt(a, axis), PosAt(b, axis)))
                = ZAbs(ZSub(PosAt(c, axis), PosAt(d, axis)))

\* the index pairs i < j in the order of the two nested loops
RECURSIVE PairsFrom(_, _, _)
PairsFrom(i, j, n) ==
    IF i >= n THEN <<>>
    ELSE IF j > n THEN PairsFrom(i + 1, i + 2, n)
    ELSE <<<<i, j>>>> \o PairsFrom(i, j + 1, n)

\* maxSpread after the pairs from k on, acc before them
RECURSIVE MaxSpread(_, _, _)
MaxSpread(spread, k, acc) ==
    IF k > Len(spread) THEN acc
    ELSE Bind(ZMax(acc, spread[k]), LAMBDA a : MaxSpread(spread, k + 1, a))

RECURSIVE MaxSpreadF(_, _, _)
MaxSpreadF(spread, k, acc) ==
    IF k > Len(spread) THEN acc
    ELSE Bind(IF FLess(acc, spread[k]) THEN spread[k] ELSE acc,
              LAMBDA a : MaxSpreadF(spread, k + 1, a))

\* the pair the second loop leaves in best: "if (score > bestScore)" from
\* pair k on, b being the best pair before (0: none, bestScore = 0)
RECURSIVE BestFrom(_, _, _)
BestFrom(score, k, b) ==
    IF k > Len(score) THEN b
    ELSE Bind(IF ZLess(IF b = 0 THEN ZI(0) ELSE score[b], score[k]) THEN k ELSE b,
              LAMBDA n : BestFrom(score, k + 1, n))

RECURSIVE BestFromF(_, _, _)
BestFromF(score, k, b) ==
    IF k > Len(score) THEN b
    ELSE Bind(IF FLess(IF b = 0 THEN F0 ELSE score[b], score[k]) THEN k ELSE b,
              LAMBDA n : BestFromF(score, k + 1, n))

\* the literals 0.4 = 0x1.999999999999ap-2, 0.6 = 0x1.3333333333333p-1 and
\* 1.1 = 0x1.199999999999ap+0
FourTenths == [s |-> 0, m |-> <<6554, 3276, 1638, 4915, 1>>, e |-> -54]
SixTenths == [s |-> 0, m |-> <<4915, 6553, 3276, 1638, 1>>, e |-> -53]
ElevenTenths == [s |-> 0, m |-> <<6554, 3276, 1638, 819, 1>>, e |-> -52]

\* the double 0.6 + 0.4 * spread / (maxSpread || 1), times votes
ScoreF(votes, spread, m) ==
    Bind(FMul(FourTenths, spread), LAMBDA a :
    Bind(FDiv(a, m), LAMBDA q :
    Bind(FAdd(SixTenths, q), LAMBDA t :
         FMul(FromInt(votes), t))))

\* The best-scoring pair of a class, ordered by position (<<>> if no pair),
\* and whether the choice met two equal numbers that need not be equal as
\* doubles.  score = (votes_i + votes_j) * (0.6 + 0.4 * spread / (maxSpread
\* || 1)), compared here times 10 * (maxSpread || 1).
BestPair(ls, axis) ==
    Bind(PairsFrom(1, 2, Len(ls)), LAMBDA ps :
    Bind(AsSeq([k \in 1..Len(ps) |->
             ZAbs(ZSub(PosAt(ls[ps[k][1]], axis), PosAt(ls[ps[k][2]], axis)))]),
         LAMBDA spread :
    Bind(MaxSpread(spread, 1, ZI(0)), LAMBDA most :
    Bind(IF ZSign(most) = 0 THEN ZI(1) ELSE most, LAMBDA m :
    Bind(AsSeq([k \in 1..Len(ps) |->
             ZScale(ls[ps[k][1]].votes + ls[ps[k][2]].votes,
                    ZAdd(ZScale(6, m), ZScale(4, spread[k])))]),
         LAMBDA score :
    Bind(BestFrom(score, 1, 0), LAMBDA b :
        IF b = 0 THEN [pair |-> <<>>, tie |-> FALSE]
        ELSE LET i == ps[b][1]
                 j == ps[b][2]
                 same(k) == /\ score[k] = score[b]
                            /\ k # b
                            /\ ~SameScore(ls[i], ls[j], ls[ps[k][1]], ls[ps[k][2]], axis)
             IN [pair |-> IF ZLess(PosAt(ls[i], axis), PosAt(ls[j], axis))
                          THEN <<ls[i], ls[j]>> ELSE <<ls[j], ls[i]>>,
                 tie |-> \/ \E k \in 1..Len(ps) : same(k)
                         \/ /\ PosAt(ls[i], axis) = PosAt(ls[j], axis)
                            /\ ~SamePos(ls[i], ls[j], axis)]))))))

\* the same pair, every number a double
BestPairF(ls, axis) ==
    Bind(PairsFrom(1, 2, Len(ls)), LAMBDA ps :
    Bind(AsSeq([i \in 1..Len(ls) |-> PosAtF(ls[i], axis)]), LAMBDA pos :
    Bind(AsSeq([k \in 1..Len(ps) |-> FAbs(FSub(pos[ps[k][1]], pos[ps[k][2]]))]),
         LAMBDA spread :
    Bind(MaxSpreadF(spread, 1, F0), LAMBDA most :
    Bind(IF most.m = <<>> THEN F1 ELSE most, LAMBDA m :
    Bind(AsSeq([k \in 1..Len(ps) |->
             ScoreF(ls[ps[k][1]].votes + ls[ps[k][2]].votes, spread[k], m)]),
         LAMBDA score :
    Bind(BestFromF(score, 1, 0), LAMBDA b :
        IF b = 0 THEN <<>>
        ELSE IF FLess(pos[ps[b][1]], pos[ps[b][2]])
        THEN <<ls[ps[b][1]], ls[ps[b][2]]>>
        ELSE <<ls[ps[b][2]], ls[ps[b][1]]>>)))))))

\* no coordinate < margin = -0.1 * Math.max(w, h) or > limit = 1.1 * Math.max(w, h)
HoughInBounds(pts, w, h) ==
    \A i \in 1..4 :
        ~(\/ ZLess(ZScale(10, pts[i][1]), ZI(-Max(w, h)))
          \/ ZLess(ZI(11 * Max(w, h)), ZScale(10, pts[i][1]))
          \/ ZLess(ZScale(10, pts[i][2]), ZI(-Max(w, h)))
          \/ ZLess(ZI(11 * Max(w, h)), ZScale(10, pts[i][2])))

\* a coordinate is margin or limit
HoughOnBounds(pts, w, h) ==
    \E i \in 1..4, n \in 1..2 :
        ZScale(10, pts[i][n]) \in {ZI(-Max(w, h)), ZI(11 * Max(w, h))}

HoughInBoundsF(pts, w, h) ==
    Bind2(FMul(FNeg(FTenth), FromInt(Max(w, h))),
          FMul(ElevenTenths, FromInt(Max(w, h))),
          LAMBDA margin, limit :
              \A i \in 1..4, n \in 1..2 :
                  ~(FLess(pts[i][n], margin) \/ FLess(limit, pts[i][n])))

\* (b[0]-a[0])*(c[1]-a[1]) - (c[0]-a[0])*(b[1]-a[1])
ZCross(a, b, c) ==
    ZSub(ZMul(ZSub(b[1], a[1]), ZSub(c[2], a[2])),
         ZMul(ZSub(c[1], a[1]), ZSub(b[2], a[2])))

\* twice the source's quadArea: the four corner cross products, summed
HoughQuadArea2(tl, tr, br, bl) ==
    ZAbs(ZAdd(ZAdd(ZCross(tl, tr, bl), ZCross(tr, br, tl)),
              ZAdd(ZCross(br, bl, tr), ZCross(bl, tl, br))))

\* the eight products of quadArea in the order they are written, each
\* (b[0]-a[0])*(c[1]-a[1]) for a, b, c of the rows below
QuadAreaTerms ==
    <<<<1, 2, 4>>, <<1, 4, 2>>, <<2, 3, 1>>, <<2, 1, 3>>,
      <<3, 4, 2>>, <<3, 2, 4>>, <<4, 1, 3>>, <<4, 3, 1>>>>

\* t1 - t2 + t3 - ... from term k on, added from the left
RECURSIVE SumTermsF(_, _, _)
SumTermsF(t, k, acc) ==
    IF k > Len(t) THEN acc
    ELSE Bind(IF k % 2 = 1 THEN FAdd(acc, t[k]) ELSE FSub(acc, t[k]),
              LAMBDA a : SumTermsF(t, k + 1, a))

\* quadArea of pts = <<tl, tr, br, bl>> in doubles
HoughQuadAreaF(pts) ==
    Bind(AsSeq([k \in 1..8 |->
             LET a == pts[QuadAreaTerms[k][1]]
                 b == pts[QuadAreaTerms[k][2]]
                 c == pts[QuadAreaTerms[k][3]]
             IN Bind2(FSub(b[1], a[1]), FSub(c[2], a[2]), FMul)]),
         LAMBDA t : Bind(SumTermsF(t, 2, t[1]), LAMBDA sum :
                         FMul([s |-> 0, m |-> F1.m, e |-> F1.e - 1], FAbs(sum))))

IsHorizontal(l) == l.deg > 30 /\ l.deg < 150
IsVertical(l) == l.deg < 60 \/ l.deg > 120

\* lines.slice(0, 8)
FirstEight(lines) == SubSeq(lines, 1, Min(8, Len(lines)))

\* <<bestH, bestV>> where findBestQuad returns a quad, <<>> where it returns
\* null, every number a double
HoughChoiceF(horizontal, vertical, w, h) ==
    Bind2(BestPairF(horizontal, "y"), BestPairF(vertical, "x"), LAMBDA bestH, bestV :
        IF bestH = <<>> \/ bestV = <<>> THEN <<>>
        ELSE Bind(<<lineIntersectionF(bestH[1], bestV[1]),
                    lineIntersectionF(bestH[1], bestV[2]),
                    lineIntersectionF(bestH[2], bestV[2]),
                    lineIntersectionF(bestH[2], bestV[1])>>, LAMBDA pts :
                 IF \E i \in 1..4 : pts[i] = <<>> THEN <<>>
                 ELSE IF ~HoughInBoundsF(pts, w, h) THEN <<>>
                 ELSE IF FLess(HoughQuadAreaF(pts),
                               FMul(FMul(FTenth, FromInt(w)), FromInt(h))) THEN <<>>
                 ELSE <<bestH, bestV>>))

\* the same choice: in exact arithmetic, or in doubles where that one meets
\* two equal numbers
HoughChoice(horizontal, vertical, w, h) ==
    Bind2(BestPair(horizontal, "y"), BestPair(vertical, "x"), LAMBDA H, V :
        IF H.tie \/ V.tie THEN HoughChoiceF(horizontal, vertical, w, h)
        ELSE IF H.pair = <<>> \/ V.pair = <<>> THEN <<>>
        ELSE Bind(<<lineIntersection(H.pair[1], V.pair[1]),
                    lineIntersection(H.pair[1], V.pair[2]),
                    lineIntersection(H.pair[2], V.pair[2]),
                    lineIntersection(H.pair[2], V.pair[1])>>, LAMBDA pts :
                 IF \E i \in 1..4 : pts[i] = <<>> THEN <<>>
                 ELSE Bind(HoughQuadArea2(pts[1], pts[2], pts[3], pts[4]), LAMBDA a2 :
                      IF HoughOnBounds(pts, w, h) \/ ZScale(5, a2) = ZI(w * h)
                      THEN HoughChoiceF(horizontal, vertical, w, h)
                      ELSE IF ~HoughInBounds(pts, w, h) THEN <<>>
                      ELSE IF ZLess(ZScale(5, a2), ZI(w * h)) THEN <<>>
                      ELSE <<H.pair, V.pair>>)))

findBestQuad(lines, w, h) ==
    IF Len(lines) < 4 THEN None
    ELSE LET horizontal == SelectSeq(lines, IsHorizontal)
             vertical == SelectSeq(lines, IsVertical)
         IN IF Len(horizontal) < 2 \/ Len(vertical) < 2 THEN None
            ELSE Bind(HoughChoice(FirstEight(horizontal), FirstEight(vertical), w, h),
                      LAMBDA c :
                 IF c = <<>> THEN None
                 ELSE Normalise(<<lineIntersection(c[1][1], c[2][1]),
                                  lineIntersection(c[1][1], c[2][2]),
                                  lineIntersection(c[1][2], c[2][2]),
                                  lineIntersection(c[1][2], c[2][1])>>, w, h))

(***************************************************************************)
(* detectDocument as a process: one action per step of the cascade.        *)
(* dLog records each strategy call with what it returned.                  *)
(***************************************************************************)
\* approximations (epsilons x components) examined per round of a hull search
MaxApprox == 2

Tup(c) == <<c[1], c[2], c[3], c[4]>>

DetInit ==
    /\ dpc = "idle"
    /\ dImg = [ok |-> FALSE, ow |-> 0, oh |-> 0]
    /\ dW = 0 /\ dH = 0
    /\ dTry = 0 /\ dCnt = 0
    /\ dBest = <<>> /\ dBestArea = 0
    /\ dLog = <<>>
    /\ dResult = Pending

\* img.onerror, or img.onload up to the first strategy; getImageData throws
\* on an empty rectangle and the catch resolves null
DetectStart ==
    /\ dpc = "idle"
    /\ \E img \in Images :
          LET w == Scaled(img.ow, img.ow, img.oh)
              h == Scaled(img.oh, img.ow, img.oh)
          IN /\ dImg' = img
             /\ dLog' = <<>>
             /\ dTry' = 0 /\ dCnt' = 0 /\ dBest' = <<>> /\ dBestArea' = 0
             /\ IF ~img.ok
                THEN dW' = 0 /\ dH' = 0 /\ dResult' = None /\ dpc' = "done"
                ELSE /\ dW' = w /\ dH' = h
                     /\ IF w = 0 \/ h = 0
                        THEN dResult' = None /\ dpc' = "done"
                        ELSE dResult' = Pending /\ dpc' = "ransac"

Returned(strategy, r) ==
    /\ dLog' = Append(dLog, <<strategy, r>>)
    /\ dResult' = r
    /\ dpc' = "done"
    /\ UNCHANGED <<dImg, dW, dH, dTry, dCnt, dBest, dBestArea>>

Failed(strategy, next) ==
    /\ dLog' = Append(dLog, <<strategy, None>>)
    /\ dpc' = next
    /\ dTry' = 0 /\ dCnt' = 0 /\ dBest' = <<>> /\ dBestArea' = 0
    /\ UNCHANGED <<dImg, dW, dH, dResult>>

\* gradientRansacDetection: allMags.length < 50
RansacFewEdges ==
    /\ dpc = "ransac" /\ dTry = 0
    /\ Failed("ransac", "segment")

\* one pass of the threshFracs loop that reaches the four intersections
RansacPass ==
    /\ dpc = "ransac" /\ dTry < 3
    /\ \E c \in RansacCands(dW, dH) :
          LET r == RansacAccept(Tup(c), dW, dH)
          IN IF r # None
             THEN Returned("ransac", r)
             ELSE /\ dTry' = dTry + 1
                  /\ UNCHANGED <<dpc, dImg, dW, dH, dCnt, dBest, dBestArea, dLog, dResult>>

\* one pass that ends in an earlier "continue" (too few pixels, no second
\* peak, too few lines, no intersection)
RansacSkip ==
    /\ dpc = "ransac" /\ dTry < 3
    /\ dTry' = dTry + 1
    /\ UNCHANGED <<dpc, dImg, dW, dH, dCnt, dBest, dBestArea, dLog, dResult>>

\* the loop ran out: return null
RansacNone ==
    /\ dpc = "ransac" /\ dTry = 3
    /\ Failed("ransac", "segment")

\* one 4-point approximation (or one skip of a 5-point one) in the round
HullApprox(strategy) ==
    /\ dpc = strategy /\ dCnt < MaxApprox
    /\ \E c \in HullQuads(dW, dH) :
          LET q == Tup(c)
          IN IF BetterQuad(q, dW, dH, dBestArea)
             THEN dBest' = q /\ dBestArea' = contourArea2(q)
             ELSE UNCHANGED <<dBest, dBestArea>>
    /\ dCnt' = dCnt + 1
    /\ UNCHANGED <<dpc, dImg, dW, dH, dTry, dLog, dResult>>

\* end of a round (polarity or radius): "if (bestQuad) break", then the return
HullEndRound(strategy, rounds, next) ==
    /\ dpc = strategy
    /\ IF dBest # <<>> THEN Returned(strategy, HullReturn(dBest, dW, dH))
       ELSE IF dTry + 1 = rounds THEN Failed(strategy, next)
       ELSE /\ dTry' = dTry + 1 /\ dCnt' = 0
            /\ UNCHANGED <<dpc, dImg, dW, dH, dBest, dBestArea, dLog, dResult>>

SegmentApprox == HullApprox("segment")
SegmentEndRound == HullEndRound("segment", 2, "contour")
ContourApprox == HullApprox("contour")
ContourEndRound == HullEndRound("contour", 3, "hough")

\* houghLines, findBestQuad and resolve(quad)
HoughFind ==
    /\ dpc = "hough"
    /\ \E ls \in HoughInputs(dW, dH) :
          LET lines == [i \in 1..Len(ls) |-> ls[i]]
          IN Returned("hough", findBestQuad(lines, dW, dH))

\* the next detect request
DetectAgain ==
    /\ dpc = "done"
    /\ dpc' = "idle"
    /\ dResult' = Pending
    /\ dLog' = <<>>
    /\ dImg' = [ok |-> FALSE, ow |-> 0, oh |-> 0]
    /\ dW' = 0 /\ dH' = 0
    /\ dTry' = 0 /\ dCnt' = 0 /\ dBest' = <<>> /\ dBestArea' = 0

(***************************************************************************)
(* Properties of the cascade                                               *)
(***************************************************************************)
AllFourNone ==
    /\ Len(dLog) = 4
    /\ \A i \in 1..4 : dLog[i][2] = None

\* C1: when detect has resolved, its result is none if and only if all four
\* strategies were run and each returned none.
C1_NoneIffAllFourNone ==
    dpc = "done" => (dResult = None <=> AllFourNone)

\* the pixel points of a returned quad, in the order tl, tr, br, bl
QuadPixels(r) ==
    <<<<r.tl[1][1][1], r.tl[2][1][1]>>, <<r.tr[1][1][1], r.tr[2][1][1]>>,
      <<r.br[1][1][1], r.br[2][1][1]>>, <<r.bl[1][1][1], r.bl[2][1][1]>>>>

\* convex, area >= 0.1*w*h, angles within [30, 150], edges >= 0.1*min(w, h)
QuadIsValid(pts, w, h) ==
    /\ isConvex(pts)
    /\ 5 * contourArea2(pts) >= w * h
    /\ \A i \in 1..4 :
          LET a == At(pts, i + 3)
              b == pts[i]
              c == At(pts, i + 1)
              dot == (a[1] - b[1]) * (c[1] - b[1]) + (a[2] - b[2]) * (c[2] - b[2])
          IN /\ 100 * Sq(a, b) >= Min(w, h) * Min(w, h)
             /\ ~AngleOutside(dot, Sq(a, b), Sq(c, b))

\* C2: every quad detect resolves with, read as tl, tr, br, bl in the w x h
\* pixel space, is convex, covers at least a tenth of the image, has its
\* angles within [30, 150] degrees and its edges at least 0.1 * min(w, h).
C2_ReturnedQuadValid ==
    (dpc = "done" /\ dResult # None) => QuadIsValid(QuadPixels(dResult), dW, dH)

(***************************************************************************)
(* The quad each detector returns, on its own: the return code of the four *)
(* strategies and of the native module (src/unnamed/part_002:44-74), each  *)
(* applied to what its search may have found.  Native points are in tenths *)
(* of the image sides, in Vision's bottom-left-origin coordinates.         *)
(***************************************************************************)
QuadSizes == {[w |-> 100, h |-> 100], [w |-> 100, h |-> 200]}

\* peaks of a document tilted by 45 degrees next to axis-parallel ones
TiltedLineSet(w, h) ==
    [deg : {0, 45}, rho : {0, w, (71 * w) \div 100, (141 * w) \div 100}, votes : {1, 2}]

TiltedInputs(w, h) ==
    {ls \in [1..4 -> TiltedLineSet(w, h)] :
        /\ \A i \in 1..3 : ls[i].votes >= ls[i + 1].votes
        /\ \A i, j \in 1..4 :
              i # j => <<ls[i].deg, ls[i].rho>> # <<ls[j].deg, ls[j].rho>>}

\* corners of a VNRectangleObservation: topLeft, topRight, bottomRight, bottomLeft
VisionXs == {-1, 3, 10}
VisionYs == {3, 11}
VisionRects == [1..4 -> VisionXs \X VisionYs]

\* the orders a sort by coordinate k may leave the points in (Swift's sort
\* promises no order among equal keys)
SortedBy(pts, k) ==
    {AsSeq([i \in 1..Len(pts) |-> pts[p[i]]]) :
        p \in {q \in [1..Len(pts) -> 1..Len(pts)] :
                 /\ \A i, j \in 1..Len(pts) : i # j => q[i] # q[j]
                 /\ \A i \in 1..(Len(pts) - 1) : pts[q[i]][k] <= pts[q[i + 1]][k]}}

\* the dictionaries DocumentDetectionModule.detectDocument may return for a
\* rectangle: flip y, clamp, sort by y, sort each pair by x
NativeOrdered(rect) ==
    LET flipped == AsSeq([i \in 1..4 |-> <<rect[i][1], 10 - rect[i][2]>>])
        clamped == AsSeq([i \in 1..4 |-> <<Min(Max(flipped[i][1], 0), 10),
                                           Min(Max(flipped[i][2], 0), 10)>>])
        Frac(p) == <<<<ZI(p[1]), 10>>, <<ZI(p[2]), 10>>>>
    IN UNION {{[tl |-> Frac(top[1]), tr |-> Frac(top[2]),
                br |-> Frac(bot[2]), bl |-> Frac(bot[1])] :
                  top \in SortedBy(SubSeq(s, 1, 2), 1),
                  bot \in SortedBy(SubSeq(s, 3, 4), 1)} : s \in SortedBy(clamped, 2)}

InitQuads ==
    /\ qBy = "idle"
    /\ qSize = [w |-> 0, h |-> 0]
    /\ qIn = <<>>
    /\ qOut = None

QuadReturned(by, size, in, out) ==
    /\ qBy' = by
    /\ qSize' = size
    /\ qIn' = in
    /\ qOut' = out

\* gradientRansacDetection returns a quad
RansacReturns ==
    /\ qBy = "idle"
    /\ \E s \in QuadSizes : \E c \in RansacCands(s.w, s.h) :
        /\ RansacAccept(Tup(c), s.w, s.h) # None
        /\ QuadReturned("ransac", s, Tup(c), RansacAccept(Tup(c), s.w, s.h))

\* segmentBasedDetection or contourBasedDetection returns its bestQuad
HullReturns ==
    /\ qBy = "idle"
    /\ \E s \in QuadSizes : \E c \in HullQuads(s.w, s.h) : \E by \in {"segment", "contour"} :
        /\ validateQuad(Tup(c), s.w, s.h)
        /\ QuadReturned(by, s, Tup(c), HullReturn(Tup(c), s.w, s.h))

\* findBestQuad returns a quad
HoughReturns ==
    /\ qBy = "idle"
    /\ \E s \in QuadSizes : \E ls \in HoughInputs(s.w, s.h) \cup TiltedInputs(s.w, s.h) :
        /\ Len(ls) = 4
        /\ \E q \in {findBestQuad(Tup(ls), s.w, s.h)} :
              q # None /\ QuadReturned("hough", s, Tup(ls), q)

\* the native module returns corners
NativeReturns ==
    /\ qBy = "idle"
    /\ \E rect \in VisionRects : \E out \in NativeOrdered(rect) :
        QuadReturned("native", [w |-> 10, h |-> 10], Tup(rect), out)

\* the next detection
QuadAgain ==
    /\ qBy # "idle"
    /\ qBy' = "idle"
    /\ qSize' = [w |-> 0, h |-> 0]
    /\ qIn' = <<>>
    /\ qOut' = None

\* x <= y for fractions of one denominator
FracLeq(x, y) == ~ZLess(y[1], x[1])

\* tl.x <= tr.x, bl.x <= br.x, and tl.y, tr.y <= bl.y, br.y
Canonical(r) ==
    /\ FracLeq(r.tl[1], r.tr[1])
    /\ FracLeq(r.bl[1], r.br[1])
    /\ \A t \in {r.tl, r.tr} : \A b \in {r.bl, r.br} : FracLeq(t[2], b[2])

\* C11: every quad a detector returns (the four strategies of the cascade and
\* the native detector) is in canonical visual order: tl.x <= tr.x,
\* bl.x <= br.x, and both tl.y and tr.y are <= both bl.y and br.y.
C11_ReturnedQuadCanonical ==
    qBy # "idle" => Canonical(qOut)

\* a fraction <<x, d>> with 0 <= x / d <= 1
InUnit(f) == ~ZLess(f[1], ZI(0)) /\ ~ZLess(ZI(f[2]), f[1])

\* C12: every coordinate of every quad a detector returns (the strategies of
\* the cascade and the native detector) lies in [0, 1].
C12_ReturnedQuadInUnitSquare ==
    qBy # "idle" =>
        \A p \in {qOut.tl, qOut.tr, qOut.br, qOut.bl} : InUnit(p[1]) /\ InUnit(p[2])

\* RANSAC accepted a quad with a corner left of the image, returned with x = 0
C12_ClampedCornerReturned ==
    /\ qBy = "ransac"
    /\ \E i \in 1..4 : qIn[i][1] < 0
    /\ qOut.tl[1] = <<ZI(0), qSize.w>>

(***************************************************************************)
(* orderCorners applied to a list of four points and to its own result.    *)
(***************************************************************************)
OrderCoords == {0, 1, 2}
OrderInputs == [1..4 -> OrderCoords \X OrderCoords]

InitOrder ==
    /\ ocStep = 0
    /\ ocPts = <<>>
    /\ ocOnce = <<>>
    /\ ocTwice = <<>>

\* orderCorners(pts)
OrderOnce ==
    /\ ocStep = 0
    /\ \E pts \in OrderInputs :
        /\ ocPts' = Tup(pts)
        /\ ocOnce' = orderCorners(Tup(pts))
    /\ ocStep' = 1
    /\ UNCHANGED ocTwice

\* orderCorners of the result
OrderTwice ==
    /\ ocStep = 1
    /\ ocTwice' = orderCorners(ocOnce)
    /\ ocStep' = 2
    /\ UNCHANGED <<ocPts, ocOnce>>

\* the next list
OrderAgain ==
    /\ ocStep = 2
    /\ ocStep' = 0
    /\ ocPts' = <<>>
    /\ ocOnce' = <<>>
    /\ ocTwice' = <<>>

\* C16: orderCorners is idempotent: orderCorners(orderCorners(p)) equals
\* orderCorners(p) for every list p of four points, ties in y or x included.
C16_OrderCornersIdempotent ==
    ocStep = 2 => ocTwice = ocOnce

\* a list with a tie in y and a tie in x that orderCorners reorders, ordered twice
C16_TiedListOrderedTwice ==
    /\ ocStep = 2
    /\ \E i, j \in 1..4 : i # j /\ ocPts[i][2] = ocPts[j][2] /\ ocPts[i] # ocPts[j]
    /\ \E i, j \in 1..4 : i # j /\ ocPts[i][1] = ocPts[j][1] /\ ocPts[i] # ocPts[j]
    /\ ocOnce # ocPts

(***************************************************************************)
(* warp and bilinear.  The entries of H_inv are integers chosen so that the *)
(* divisor w of a pixel is 0, 1 or 2 or the negative of one: sx and sy are  *)
(* then multiples of 1/2 and every product and sum of bilinear is exact in  *)
(* doubles.  A source coordinate is kept as the numerators <<nx, ny>> over  *)
(* the divisor w.                                                           *)
(***************************************************************************)
WarpColors == {<<10, 20, 31>>, <<255, 0, 101>>}
WarpSources == [1..4 -> WarpColors]
WarpMatrices ==
    {<<1, 0, h2, 0, 1, h5, h6, 0, h8>> :
        h2 \in {-1, 0, 1}, h5 \in {0, 1}, h6 \in {-1, 0}, h8 \in {1, 2}}
    \cup {<<1, 0, 0, 0, 1, 0, 0, 0, -1>>, <<-1, 0, -1, 0, -1, 0, 0, 0, -1>>,
           <<-1, 0, 0, 0, -1, -1, -1, 0, -1>>, <<-1, 0, -1, 0, -1, -1, 0, 0, -2>>}

\* an assignment to an element of a Uint8ClampedArray of the value n / d,
\* d > 0: rounded to the nearest integer, ties to even, clamped to 0..255
ToUint8Clamped(n, d) ==
    LET q == n \div d
        r == n % d
        v == IF 2 * r < d THEN q
             ELSE IF 2 * r > d THEN q + 1
             ELSE IF q % 2 = 0 THEN q ELSE q + 1
    IN Min(Max(v, 0), 255)

\* srcData[(y*sw + x)*4 + c] for c = 0, 1, 2
SrcPixel(srcData, sw, x, y) == srcData[y * sw + x + 1]

\* a sampling that takes the pixel at (x0, y0) without interpolating
bilinearNearest(srcData, sw, sh, nx, ny, d) ==
    LET p00 == SrcPixel(srcData, sw, Max(0, nx \div d), Max(0, ny \div d))
    IN AsSeq([c \in 1..3 |-> p00[c] * d * d])

\* bilinear(srcData, sw, sh, x, y) for x = nx / d and y = ny / d: the three
\* values v, each as a numerator over d * d
bilinear(srcData, sw, sh, nx, ny, d) ==
    LET fl0x == nx \div d
        fl0y == ny \div d
        x1 == Min(fl0x + 1, sw - 1)
        y1 == Min(fl0y + 1, sh - 1)
        x0 == Max(0, fl0x)
        y0 == Max(0, fl0y)
        fx == nx - fl0x * d
        fy == ny - fl0y * d
        p00 == SrcPixel(srcData, sw, x0, y0)
        p10 == SrcPixel(srcData, sw, x1, y0)
        p01 == SrcPixel(srcData, sw, x0, y1)
        p11 == SrcPixel(srcData, sw, x1, y1)
    IN AsSeq([c \in 1..3 |->
            p00[c] * (d - fx) * (d - fy) + p10[c] * fx * (d - fy)
            + p01[c] * (d - fx) * fy + p11[c] * fx * fy])

\* w, and the numerators of sx and sy, for the destination pixel (dx, dy)
WarpCoord(H_inv, dx, dy) ==
    [w |-> H_inv[7] * dx + H_inv[8] * dy + H_inv[9],
     nx |-> H_inv[1] * dx + H_inv[2] * dy + H_inv[3],
     ny |-> H_inv[4] * dx + H_inv[5] * dy + H_inv[6]]

\* the quotients nx / w and ny / w written over a divisor that is not
\* negative
WarpQuotient(c) ==
    IF c.w < 0 THEN [w |-> -c.w, nx |-> -c.nx, ny |-> -c.ny] ELSE c

\* sx >= 0 && sx < sw && sy >= 0 && sy < sh; with w = 0 the quotients are
\* NaN or infinite and the test is false; a zero of either sign is >= 0
WarpInside(c, sw, sh) ==
    LET p == WarpQuotient(c)
    IN /\ p.w # 0
       /\ p.nx >= 0 /\ p.nx < sw * p.w
       /\ p.ny >= 0 /\ p.ny < sh * p.w

\* the body of the inner loop: the pixel of out at (dx, dy)
WarpPixelValue(in, dx, dy, old) ==
    LET c == WarpCoord(in.H_inv, dx, dy)
        p == WarpQuotient(c)
    IN IF WarpInside(c, in.sw, in.sh)
       THEN LET rgb == bilinear(in.srcData, in.sw, in.sh, p.nx, p.ny, p.w)
            IN <<ToUint8Clamped(rgb[1], p.w * p.w), ToUint8Clamped(rgb[2], p.w * p.w),
                 ToUint8Clamped(rgb[3], p.w * p.w), 255>>
       ELSE <<old[1], old[2], old[3], 255>>

InitWarp ==
    /\ wPc = "idle"
    /\ wIn = <<>>
    /\ wDx = 0
    /\ wDy = 0
    /\ wOut = <<>>
    /\ wVisits = <<>>

\* warp is called: out = new Uint8ClampedArray(dw * dh * 4), all zero
WarpStart ==
    /\ wPc = "idle"
    /\ \E src \in WarpSources, H \in WarpMatrices :
        wIn' = [srcData |-> Tup(src), sw |-> 2, sh |-> 2, H_inv |-> H, dw |-> 2, dh |-> 2]
    /\ wOut' = AsSeq([i \in 1..4 |-> <<0, 0, 0, 0>>])
    /\ wVisits' = AsSeq([i \in 1..4 |-> 0])
    /\ wDx' = 0
    /\ wDy' = 0
    /\ wPc' = "loop"

\* one round of the inner loop, and the loop headers that follow it
WarpPixel ==
    /\ wPc = "loop"
    /\ LET idx == wDy * wIn.dw + wDx + 1
       IN /\ wOut' = [wOut EXCEPT ![idx] = WarpPixelValue(wIn, wDx, wDy, wOut[idx])]
          /\ wVisits' = [wVisits EXCEPT ![idx] = @ + 1]
    /\ IF wDx + 1 < wIn.dw
       THEN wDx' = wDx + 1 /\ UNCHANGED <<wDy, wPc>>
       ELSE IF wDy + 1 < wIn.dh
            THEN wDx' = 0 /\ wDy' = wDy + 1 /\ UNCHANGED wPc
            ELSE wPc' = "done" /\ UNCHANGED <<wDx, wDy>>
    /\ UNCHANGED wIn

\* the next call
WarpAgain ==
    /\ wPc = "done"
    /\ wPc' = "idle"
    /\ wIn' = <<>>
    /\ wDx' = 0
    /\ wDy' = 0
    /\ wOut' = <<>>
    /\ wVisits' = <<>>

\* an index clamped to the source bounds
ClampIdx(i, n) == IF i < 0 THEN 0 ELSE IF i > n - 1 THEN n - 1 ELSE i

\* the bilinear sample at (nx / d, ny / d) stated on its own: the four
\* pixels around the coordinate, indices clamped, weighted by the distances;
\* the numerator over d * d
SampleAround(in, nx, ny, d, c) ==
    LET fx == nx % d
        fy == ny % d
        X(k) == ClampIdx(nx \div d + k, in.sw)
        Y(k) == ClampIdx(ny \div d + k, in.sh)
        P(i, j) == in.srcData[Y(j) * in.sw + X(i) + 1][c]
    IN (d - fx) * (d - fy) * P(0, 0) + fx * (d - fy) * P(1, 0)
       + (d - fx) * fy * P(0, 1) + fx * fy * P(1, 1)

\* C14: warp writes every destination pixel of the dw x dh output exactly
\* once: each pixel gets alpha 255, a pixel whose inverse-mapped source
\* coordinate lies outside [0,sw) x [0,sh) is black, and every other pixel
\* is the bilinear sample of the four surrounding source pixels with indices
\* clamped to the source bounds.
C14_WarpWritesEveryPixel ==
    wPc = "done" =>
        /\ Len(wOut) = wIn.dw * wIn.dh
        /\ \A dy \in 0..(wIn.dh - 1) : \A dx \in 0..(wIn.dw - 1) :
             LET px == wOut[dy * wIn.dw + dx + 1]
                 h == WarpCoord(wIn.H_inv, dx, dy)
                 sg == IF h.w < 0 THEN -1 ELSE 1
                 c == [w |-> sg * h.w, nx |-> sg * h.nx, ny |-> sg * h.ny]
                 outside == \/ c.w = 0
                            \/ c.w > 0 /\ (c.nx < 0 \/ c.nx >= wIn.sw * c.w)
                            \/ c.w > 0 /\ (c.ny < 0 \/ c.ny >= wIn.sh * c.w)
             IN /\ wVisits[dy * wIn.dw + dx + 1] = 1
                /\ px[4] = 255
                /\ IF outside
                   THEN px[1] = 0 /\ px[2] = 0 /\ px[3] = 0
                   ELSE \A k \in 1..3 :
                          px[k] = ToUint8Clamped(SampleAround(wIn, c.nx, c.ny, c.w, k), c.w * c.w)

\* a finished warp with a pixel mapped outside the source and a pixel that
\* blends two different source pixels
C14_OutsideAndBlendedPixel ==
    /\ wPc = "done"
    /\ \E dy \in 0..1, dx \in 0..1 : ~WarpInside(WarpCoord(wIn.H_inv, dx, dy), wIn.sw, wIn.sh)
    /\ \E dy \in 0..1, dx \in 0..1 :
         LET c == WarpCoord(wIn.H_inv, dx, dy)
         IN /\ WarpInside(c, wIn.sw, wIn.sh)
            /\ c.w > 0
            /\ c.nx % c.w # 0
            /\ wOut[dy * wIn.dw + dx + 1] \notin {<<p[1], p[2], p[3], 255>> : p \in WarpColors}

(***************************************************************************)
(* The enhancement filters.  A buffer is a sequence of w*h pixels           *)
(* <<r, g, b, a>>.  Gray values, the integral image, means and stretched    *)
(* values are the doubles the engine computes, operation by operation; the  *)
(* channel values written into the buffer are integers 0..255.              *)
(***************************************************************************)
\* Math.round(n / d) for d > 0
RoundHalfUp(n, d) == (2 * n + d) \div (2 * d)

\* a * b
RECURSIVE BTimes(_, _)
BTimes(a, b) ==
    IF a = <<>> \/ b = <<>> THEN <<>>
    ELSE Bind(BTimes(Tail(a), b), LAMBDA r :
         Bind(BMulSmall(b, a[1]), LAMBDA t :
              BAdd(t, IF r = <<>> THEN <<>> ELSE <<0>> \o r)))

\* b^n
RECURSIVE BPow(_, _)
BPow(b, n) == IF n = 0 THEN <<1>> ELSE Bind(BPow(b, n - 1), LAMBDA p : BTimes(b, p))

\* v = Math.round(a); v < 0 ? 0 : v > 255 ? 255 : v
RoundClamped(a) ==
    IF a.m = <<>> \/ a.s = 1 THEN 0
    ELSE IF a.e + 53 > 24 THEN 255
    ELSE Min((FloorInt([a EXCEPT !.e = a.e + 1]) + 1) \div 2, 255)

\* the doubles 0.299, 0.587, 0.114, 0.01 and 0.99
Weights ==
    {<<n, FDiv(FromInt(n), FromInt(1000))>> : n \in {299, 587, 114}}
    \cup {<<n, FDiv(FromInt(n), FromInt(100))>> : n \in {1, 99}}
Weight(n) == (CHOOSE p \in Weights : p[1] = n)[2]

\* 0.299*r + 0.587*g + 0.114*b
GrayOf(px) ==
    Bind(FMul(Weight(299), FromInt(px[1])), LAMBDA r :
    Bind(FMul(Weight(587), FromInt(px[2])), LAMBDA g :
    Bind(FAdd(r, g), LAMBDA rg :
    Bind(FMul(Weight(114), FromInt(px[3])), LAMBDA b : FAdd(rg, b)))))

\* toGray: gray[i] = 0.299*data[i*4] + 0.587*data[i*4+1] + 0.114*data[i*4+2]
toGray(data) == AsSeq([i \in 1..Len(data) |-> GrayOf(data[i])])

\* rowSum after the pixels 0..x of row y: rowSum += gray[y*w+x]
RECURSIVE RowSums(_, _, _, _)
RowSums(gray, w, y, x) ==
    IF x < 0 THEN <<>>
    ELSE Bind(RowSums(gray, w, y, x - 1), LAMBDA before :
              Append(before, FAdd(IF x = 0 THEN FZero ELSE before[x], gray[y * w + x + 1])))

\* the rows 0..Y of the integral image, each of w+1 doubles:
\* integral[(y+1)*(w+1)+(x+1)] = integral[y*(w+1)+(x+1)] + rowSum
RECURSIVE Integral(_, _, _)
Integral(gray, w, Y) ==
    IF Y = 0 THEN <<AsSeq([x \in 1..(w + 1) |-> FZero])>>
    ELSE Bind(Integral(gray, w, Y - 1), LAMBDA above :
         Bind(RowSums(gray, w, Y - 1, w - 1), LAMBDA sums :
              Append(above,
                     AsSeq([x \in 1..(w + 1) |->
                              IF x = 1 THEN FZero ELSE FAdd(above[Y][x], sums[x - 1])]))))

\* gray[y*w+x] < (mean - C), with mean = sum / area over the block of (x, y)
UnderMean(gray, integral, w, h, half, C, x, y) ==
    LET x1 == Max(0, x - half)
        y1 == Max(0, y - half)
        x2 == Min(w - 1, x + half)
        y2 == Min(h - 1, y + half)
        area == (x2 - x1 + 1) * (y2 - y1 + 1)
    IN Bind(FSub(integral[y2 + 2][x2 + 2], integral[y1 + 1][x2 + 2]), LAMBDA s1 :
       Bind(FSub(s1, integral[y2 + 2][x1 + 1]), LAMBDA s2 :
       Bind(FAdd(s2, integral[y1 + 1][x1 + 1]), LAMBDA sum :
       Bind(FDiv(sum, FromInt(area)), LAMBDA mean :
       Bind(FSub(mean, FromInt(C)), LAMBDA bound :
            FLess(gray[y * w + x + 1], bound))))))

\* a threshold that keeps the gray value of the pixels it does not blacken
adaptiveThresholdKeep(gray, w, h, blockSize, C) ==
    Bind(Integral(gray, w, h), LAMBDA integral :
         AsSeq([i \in 1..(w * h) |->
                  IF UnderMean(gray, integral, w, h, blockSize \div 2, C,
                               (i - 1) % w, (i - 1) \div w)
                  THEN 0 ELSE RoundClamped(gray[i])]))

\* adaptiveThreshold: out[y*w+x] = gray < mean - C ? 0 : 255
adaptiveThreshold(gray, w, h, blockSize, C) ==
    Bind(Integral(gray, w, h), LAMBDA integral :
         AsSeq([i \in 1..(w * h) |->
                  IF UnderMean(gray, integral, w, h, blockSize \div 2, C,
                               (i - 1) % w, (i - 1) \div w)
                  THEN 0 ELSE 255]))

\* Math.max(15, Math.round(Math.min(w,h)/8)|1), made odd
BlockSize(w, h) ==
    LET r == RoundHalfUp(Min(w, h), 8)
        odd == IF r % 2 = 0 THEN r + 1 ELSE r
        b == Max(15, odd)
    IN IF b % 2 = 0 THEN b + 1 ELSE b

\* enhanceBW: data after the call
enhanceBW(data, w, h) ==
    Bind(toGray(data), LAMBDA gray :
    Bind(adaptiveThreshold(gray, w, h, BlockSize(w, h), 10), LAMBDA bw :
         AsSeq([i \in 1..(w * h) |-> <<bw[i], bw[i], bw[i], data[i][4]>>])))

\* Array.from(vals).sort(function(a,b){return a-b;}) of doubles that are not
\* negative
RECURSIVE InsertNum(_, _)
InsertNum(s, v) ==
    IF s = <<>> THEN <<v>>
    ELSE IF FAbsLess(v, s[1]) THEN <<v>> \o s
    ELSE <<s[1]>> \o InsertNum(Tail(s), v)

RECURSIVE SortNums(_)
SortNums(s) ==
    IF s = <<>> THEN <<>>
    ELSE Bind(SortNums(Tail(s)), LAMBDA rest : InsertNum(rest, s[1]))

\* sorted[Math.floor(n * 0.01)] and sorted[Math.floor(n * 0.99)]
PercentileLo(vals) ==
    SortNums(vals)[FloorInt(FMul(FromInt(Len(vals)), Weight(1))) + 1]
PercentileHi(vals) ==
    SortNums(vals)[FloorInt(FMul(FromInt(Len(vals)), Weight(99))) + 1]

\* hi - lo || 1
RangeOf(lo, hi) == Bind(FSub(hi, lo), LAMBDA d : IF d.m = <<>> THEN FromInt(1) ELSE d)

\* v = Math.round(((g-lo)/range)*255); v < 0 ? 0 : v > 255 ? 255 : v
Stretch(g, lo, range) ==
    Bind(FSub(g, lo), LAMBDA d :
    Bind(FDiv(d, range), LAMBDA q :
    Bind(FMul(q, FromInt(255)), LAMBDA v : RoundClamped(v))))

\* enhanceGray: data after the call
enhanceGray(data, w, h) ==
    Bind(toGray(data), LAMBDA gray :
    Bind(PercentileLo(gray), LAMBDA lo :
    Bind(PercentileHi(gray), LAMBDA hi :
    Bind(RangeOf(lo, hi), LAMBDA range :
    Bind(AsSeq([i \in 1..(w * h) |-> Stretch(gray[i], lo, range)]), LAMBDA out :
         AsSeq([i \in 1..(w * h) |-> <<out[i], out[i], out[i], data[i][4]>>]))))))

\* the greatest k of lo..hi with (2k-1)^20 * R <= A
RECURSIVE PowSearch(_, _, _, _)
PowSearch(A, R, lo, hi) ==
    IF lo >= hi THEN lo
    ELSE Bind((lo + hi + 1) \div 2, LAMBDA k :
         Bind(BTimes(R, BPow(BI(2 * k - 1), 20)), LAMBDA B :
              IF BCmp(B, A) <= 0
              THEN PowSearch(A, R, k, hi)
              ELSE PowSearch(A, R, lo, k - 1)))

\* v = ((ch[i]-lo)/range)*255, clamped to 0..255, then
\* Math.round(Math.pow(v/255, 0.85)*255), for a = ch[i]-lo and r = range.
\* The result is k when (2k-1)/510 <= (a/r)^(17/20) < (2k+1)/510; for 8-bit
\* a and r the power is never within 0.00001 of a bound, far beyond the
\* rounding of the doubles, so the bounds are compared exactly.
PowRound(a, r) ==
    IF a <= 0 THEN 0
    ELSE IF a >= r THEN 255
    ELSE Bind(BTimes(BPow(BI(a), 17), BPow(BI(510), 20)), LAMBDA A :
         Bind(BPow(BI(r), 17), LAMBDA R : PowSearch(A, R, 0, 255)))

\* enhanceColor: the channel c of data after the call
ColorChannel(data, n, c) ==
    Bind(AsSeq([i \in 1..n |-> FromInt(data[i][c])]), LAMBDA ch :
    Bind(FloorInt(PercentileLo(ch)), LAMBDA lo :
    Bind(FloorInt(PercentileHi(ch)), LAMBDA hi :
    Bind(IF hi - lo = 0 THEN 1 ELSE hi - lo, LAMBDA range :
         AsSeq([i \in 1..n |-> PowRound(data[i][c] - lo, range)])))))

\* enhanceColor: data after the call
enhanceColor(data, w, h) ==
    Bind(ColorChannel(data, w * h, 1), LAMBDA r :
    Bind(ColorChannel(data, w * h, 2), LAMBDA g :
    Bind(ColorChannel(data, w * h, 3), LAMBDA b :
         AsSeq([i \in 1..(w * h) |-> <<r[i], g[i], b[i], data[i][4]>>]))))

(***************************************************************************)
(* enhanceBW applied to a buffer: 2 x 1, 2 x 2 and 9 x 1 images; on the     *)
(* last the block of a pixel (half = 7) is not the whole image.  Levels 1   *)
(* and 21 are 10 apart as integers and not as the gray doubles toGray makes *)
(* of them.                                                                 *)
(***************************************************************************)
BWLevels == {1, 21, 255}
BWRowLevels == {1, 21}
BWSizes == {[w |-> 2, h |-> 1, levels |-> BWLevels], [w |-> 2, h |-> 2, levels |-> BWLevels],
            [w |-> 9, h |-> 1, levels |-> BWRowLevels]}
GrayPixel(v) == <<v, v, v, 255>>

InitBW ==
    /\ bwPc = "idle"
    /\ bwIn = <<>>
    /\ bwData = <<>>

\* enhanceBW(data, w, h)
EnhanceBWCall ==
    /\ bwPc = "idle"
    /\ \E size \in BWSizes : \E img \in [1..(size.w * size.h) -> size.levels] :
        LET data == AsSeq([i \in 1..(size.w * size.h) |-> GrayPixel(img[i])])
        IN /\ bwIn' = [data |-> data, w |-> size.w, h |-> size.h]
           /\ bwData' = enhanceBW(data, size.w, size.h)
    /\ bwPc' = "done"

\* the next call
EnhanceBWAgain ==
    /\ bwPc = "done"
    /\ bwPc' = "idle"
    /\ bwIn' = <<>>
    /\ bwData' = <<>>

\* every pixel of the buffer has the colour of the first
Uniform(data) == \A i \in 1..Len(data) : \A c \in 1..3 : data[i][c] = data[1][c]

\* C18: enhanceBW applied to a uniform image returns a uniform buffer, all
\* white or all black, and every colour channel value enhanceBW writes is
\* 0 or 255.
C18_EnhanceBWBinary ==
    bwPc = "done" =>
        /\ \A i \in 1..Len(bwData) : \A c \in 1..3 : bwData[i][c] \in {0, 255}
        /\ Uniform(bwIn.data) => Uniform(bwData)

\* enhanceBW has run on a uniform image that is neither white nor black
C18_UniformImageEnhanced ==
    /\ bwPc = "done"
    /\ Uniform(bwIn.data)
    /\ bwIn.data[1][1] = 21
    /\ bwIn.w = 9
    /\ Uniform(bwData)

(***************************************************************************)
(* previewFilters from the warped buffer on.  What toDataURL encodes is the *)
(* content of the canvas after putImageData(copy); results holds these      *)
(* pixels, the JPEG bytes made of them are not modelled.                    *)
(***************************************************************************)
PreviewColors == {<<10, 20, 31, 255>>, <<255, 0, 101, 255>>, <<128, 0, 31, 255>>}
PreviewBuffers == [1..4 -> PreviewColors]
modes == <<"bw", "gray", "color">>

\* warped after a filter has run on an array that shares its memory
WarpedShared(warped, copy) == copy

\* warped after a filter has run on copy = new Uint8ClampedArray(warped),
\* an array with memory of its own
WarpedAfter(warped, copy) == warped

InitPreview ==
    /\ pvPc = "idle"
    /\ pvWarped = <<>>
    /\ pvWarped0 = <<>>
    /\ pvMi = 0
    /\ pvResults = <<>>

\* warped = warp(srcData, sw, sh, H_inv, dw, dh), a 2 x 2 buffer
PreviewWarp ==
    /\ pvPc = "idle"
    /\ \E buf \in PreviewBuffers :
        /\ pvWarped' = Tup(buf)
        /\ pvWarped0' = Tup(buf)
    /\ pvMi' = 0
    /\ pvResults' = <<>>
    /\ pvPc' = "loop"

\* one round of the loop over modes
PreviewMode ==
    /\ pvPc = "loop"
    /\ LET mode == modes[pvMi + 1]
           copy == IF mode = "bw" THEN enhanceBW(pvWarped, 2, 2)
                   ELSE IF mode = "gray" THEN enhanceGray(pvWarped, 2, 2)
                   ELSE enhanceColor(pvWarped, 2, 2)
       IN /\ pvResults' = Append(pvResults, [mode |-> mode, pixels |-> copy])
          /\ pvWarped' = WarpedAfter(pvWarped, copy)
    /\ pvMi' = pvMi + 1
    /\ pvPc' = IF pvMi + 1 < Len(modes) THEN "loop" ELSE "done"
    /\ UNCHANGED pvWarped0

\* return results; the next call
PreviewAgain ==
    /\ pvPc = "done"
    /\ pvPc' = "idle"
    /\ pvWarped' = <<>>
    /\ pvWarped0' = <<>>
    /\ pvMi' = 0
    /\ pvResults' = <<>>

\* C15: previewFilters derives the three variants from the single warped
\* buffer: each of bw, gray and color is the corresponding filter applied to
\* an untouched copy of the warped buffer, and the warped buffer is
\* unchanged by the filters.
C15_VariantsFromOneWarp ==
    pvPc = "done" =>
        /\ pvWarped = pvWarped0
        /\ Len(pvResults) = 3
        /\ pvResults[1] = [mode |-> "bw", pixels |-> enhanceBW(pvWarped0, 2, 2)]
        /\ pvResults[2] = [mode |-> "gray", pixels |-> enhanceGray(pvWarped0, 2, 2)]
        /\ pvResults[3] = [mode |-> "color", pixels |-> enhanceColor(pvWarped0, 2, 2)]

\* three variants of a buffer that every filter changes and on which the gray
\* filter gives another result after the bw filter than before it
C15_ThreeDistinctVariants ==
    /\ pvPc = "done"
    /\ pvResults[1].pixels # pvWarped0
    /\ pvResults[2].pixels # pvResults[1].pixels
    /\ pvResults[3].pixels # pvResults[2].pixels
    /\ enhanceGray(pvResults[1].pixels, 2, 2) # pvResults[2].pixels

(***************************************************************************)
(* The ad service.  A call of checkAndShowAd is a record of adCalls: pc is  *)
(* "read" (awaiting getDailyScanData), "showing" (awaiting CLOSED), "save"  *)
(* (awaiting saveDailyScanData) or "done" (resolved); day, before, shown    *)
(* and after are history fields: the day of the call, the count stored for  *)
(* that day when it was made, whether it waited for an interstitial that    *)
(* was shown and closed, and the count it stored; ad is the interstitial    *)
(* the call has added its CLOSED listener to (0 for none); a listener is    *)
(* never removed.  The objects createForAdRequest returns are numbered in   *)
(* the order of their creation.                                             *)
(***************************************************************************)
MaxAdCalls == 3
MaxDays == 2
\* interstitials up to which initAds is called again
MaxAds == 2
\* interstitials up to which CLOSED events are delivered
MaxCreated == 5

NoItem == [date |-> 0, count |-> 0]

\* getDailyScanData: the stored record if its date is today's, else a new one
getDailyScanData(store, today) ==
    IF store.date # 0 /\ store.date = today THEN store ELSE [date |-> today, count |-> 0]

\* getDailyScanData when AsyncStorage.getItem rejects (or JSON.parse throws):
\* the catch ignores the error and a new record is returned
getDailyScanDataCaught(today) == [date |-> today, count |-> 0]

InitAds ==
    /\ adToday = 1
    /\ adStore = NoItem
    /\ interstitial = 0
    /\ adLoaded = FALSE
    /\ adCalls = <<>>

\* initAds gets as far as loadAd: adLoaded = false and a new interstitial
loadAd ==
    /\ interstitial < MaxAds
    /\ adLoaded' = FALSE
    /\ interstitial' = interstitial + 1
    /\ UNCHANGED <<adToday, adStore, adCalls>>

\* the LOADED listener of an interstitial
AdLoadedEvent ==
    /\ interstitial # 0
    /\ ~adLoaded
    /\ adLoaded' = TRUE
    /\ UNCHANGED <<adToday, adStore, interstitial, adCalls>>

\* the ERROR listener of an interstitial
AdErrorEvent ==
    /\ interstitial # 0
    /\ adLoaded
    /\ adLoaded' = FALSE
    /\ UNCHANGED <<adToday, adStore, interstitial, adCalls>>

\* midnight
NextDay ==
    /\ adToday < MaxDays
    /\ adToday' = adToday + 1
    /\ UNCHANGED <<adStore, interstitial, adLoaded, adCalls>>

\* checkAndShowAd is called
checkAndShowAd ==
    /\ Len(adCalls) < MaxAdCalls
    /\ adCalls' = Append(adCalls,
            [pc |-> "read", data |-> NoItem, day |-> adToday,
             before |-> getDailyScanData(adStore, adToday).count,
             shown |-> FALSE, after |-> 0, ad |-> 0])
    /\ UNCHANGED <<adToday, adStore, interstitial, adLoaded>>

\* getDailyScanData resolves, with the stored record read or with the record
\* of its catch, and the call goes on to show() or to the save
AdDataRead ==
    \E i \in 1..Len(adCalls), read \in BOOLEAN :
        /\ adCalls[i].pc = "read"
        /\ LET data == IF read THEN getDailyScanData(adStore, adToday)
                       ELSE getDailyScanDataCaught(adToday)
               show == data.count >= 1 /\ adLoaded /\ interstitial # 0
           IN adCalls' = [adCalls EXCEPT
                  ![i].data = [date |-> data.date, count |-> data.count + 1],
                  ![i].ad = IF show THEN interstitial ELSE 0,
                  ![i].pc = IF show THEN "showing" ELSE "save"]
        /\ UNCHANGED <<adToday, adStore, interstitial, adLoaded>>

\* the calls whose CLOSED listener is on interstitial k, resolved or not
Listeners(k) == {i \in 1..Len(adCalls) : adCalls[i].ad = k}

\* CLOSED of one interstitial, the first or a repeated one: each of its
\* listeners runs resolve() and loadAd(), which creates a new interstitial;
\* the calls still waiting go on to data.count += 1 and the save
AdClosed ==
    \E k \in 1..interstitial :
        /\ Listeners(k) # {}
        /\ interstitial + Cardinality(Listeners(k)) <= MaxCreated
        /\ adCalls' = [i \in 1..Len(adCalls) |->
                IF i \in Listeners(k) /\ adCalls[i].pc = "showing"
                THEN [adCalls[i] EXCEPT !.pc = "save", !.shown = TRUE]
                ELSE adCalls[i]]
        /\ adLoaded' = FALSE
        /\ interstitial' = interstitial + Cardinality(Listeners(k))
        /\ UNCHANGED <<adToday, adStore>>

\* saveDailyScanData resolves, and with it the call
AdDataSaved ==
    \E i \in 1..Len(adCalls) :
        /\ adCalls[i].pc = "save"
        /\ adStore' = adCalls[i].data
        /\ adCalls' = [adCalls EXCEPT ![i].pc = "done", ![i].after = adCalls[i].data.count]
        /\ UNCHANGED <<adToday, interstitial, adLoaded>>

\* no earlier call was made on the day of call i
FirstOfDay(i) == \A j \in 1..(i - 1) : adCalls[j].day # adCalls[i].day

\* C19: ad gating by checkAndShowAd: the first call of a day shows no ad;
\* every later call that day does not resolve until an interstitial has been
\* shown and closed; and each call increases the count stored for the day
\* by exactly one, the count restarting from 0 when the stored date is not
\* today's.
C19_AdGating ==
    \A i \in 1..Len(adCalls) :
        adCalls[i].pc = "done" =>
            /\ FirstOfDay(i) => ~adCalls[i].shown
            /\ ~FirstOfDay(i) => adCalls[i].shown
            /\ adCalls[i].after = adCalls[i].before + 1

(***************************************************************************)
(* CameraScanner.  Coordinates of ScannerCorners are exact fractions       *)
(* <<n, d>>, d > 0, in lowest terms; times are in ms.                      *)
(***************************************************************************)
RECURSIVE GCD(_, _)
GCD(a, b) == IF b = 0 THEN a ELSE GCD(b, a % b)

RNorm(n, d) ==
    LET g == GCD(Abs(n), Abs(d))
        sg == IF d < 0 THEN -1 ELSE 1
    IN <<sg * (n \div g), sg * (d \div g)>>

RAdd(a, b) == RNorm(a[1] * b[2] + b[1] * a[2], a[2] * b[2])
RSub(a, b) == RNorm(a[1] * b[2] - b[1] * a[2], a[2] * b[2])
RMul(a, b) == RNorm(a[1] * b[1], a[2] * b[2])
RDiv(a, b) == RNorm(a[1] * b[2], a[2] * b[1])
RLess(a, b) == a[1] * b[2] < b[1] * a[2]
RMax(a, b) == IF RLess(a, b) THEN b ELSE a
RAbs(a) == <<Abs(a[1]), a[2]>>

lerpCorners(a, b, t) ==
    LET lerp(v0, v1) == RAdd(v0, RMul(RSub(v1, v0), t))
        pt(p, q) == <<lerp(p[1], q[1]), lerp(p[2], q[2])>>
    IN [tl |-> pt(a.tl, b.tl), tr |-> pt(a.tr, b.tr),
        br |-> pt(a.br, b.br), bl |-> pt(a.bl, b.bl)]

ZeroLayout == [width |-> 0, height |-> 0]
LayoutSet == {ZeroLayout, [width |-> 360, height |-> 640]}

\* sizes of the preview snapshots
Snaps == {[w |-> 480, h |-> 640]}

\* Math.abs(snapAR - prevAR) / Math.max(snapAR, prevAR) < 0.05, on the doubles
\* snapW / snapH and layout.width / layout.height
AspectClose(snapW, snapH, lay) ==
    LET snapAR == FDiv(FromInt(snapW), FromInt(snapH))
        prevAR == FDiv(FromInt(lay.width), FromInt(lay.height))
        most == IF FAbsLess(snapAR, prevAR) THEN prevAR ELSE snapAR
    IN FAbsLess(FDiv(FAbs(FSub(snapAR, prevAR)), most), FDiv(FromInt(1), FromInt(20)))

\* AspectClose.  The exact quotient is |ad - cb| / max(ad, cb) for the ratios
\* a/b and c/d; when it is more than a thousandth of 0.05 away from 0.05 the
\* rounding of the doubles (a few units of 2^-53) cannot change the outcome
\* and the test is decided on the integers, otherwise on the doubles.
AspectCloseAt(snapW, snapH, lay) ==
    LET ad == snapW * lay.height
        cb == lay.width * snapH
        most == Max(ad, cb)
        off == 20 * Abs(ad - cb) - most
    IN IF Abs(off) > (most \div 1000) + 1
       THEN off < 0
       ELSE AspectClose(snapW, snapH, lay)

\* lay is the layout captured by the callback. The test of the aspect
\* ratios is made on doubles; the remapped coordinates are kept as exact
\* fractions.
remapCornersForPreview(corners, snapW, snapH, lay) ==
    IF lay.width = 0 \/ lay.height = 0 THEN corners
    ELSE LET snapAR == RNorm(snapW, snapH)
             prevAR == RNorm(lay.width, lay.height)
         IN IF AspectCloseAt(snapW, snapH, lay)
            THEN corners
            ELSE LET wider == RLess(prevAR, snapAR)
                     visibleFrac == IF wider THEN RDiv(prevAR, snapAR)
                                    ELSE RDiv(snapAR, prevAR)
                     offset == RDiv(RSub(<<1, 1>>, visibleFrac), <<2, 1>>)
                     remap(c) ==
                         IF wider THEN <<RDiv(RSub(c[1], offset), visibleFrac), c[2]>>
                         ELSE <<c[1], RDiv(RSub(c[2], offset), visibleFrac)>>
                 IN [tl |-> remap(corners.tl), tr |-> remap(corners.tr),
                     br |-> remap(corners.br), bl |-> remap(corners.bl)]

PollMs == 50
LoopMs == 400
WarmupMs == 1000
StaleMs == 1500
\* the step of the model's clock; a timer runs at the first step at or
\* after its delay
TickMs == 2 * PollMs

\* bounds of the camera model
MaxTimers == 2
MaxPasses == 2
MaxHits == 2

\* quads the processor may answer a preview detect with
DetQuads ==
    {[tl |-> <<<<1, 10>>, <<1, 10>>>>, tr |-> <<<<9, 10>>, <<1, 10>>>>,
      br |-> <<<<9, 10>>, <<9, 10>>>>, bl |-> <<<<1, 10>>, <<9, 10>>>>],
     [tl |-> <<<<1, 5>>, <<3, 10>>>>, tr |-> <<<<4, 5>>, <<1, 5>>>>,
      br |-> <<<<7, 10>>, <<4, 5>>>>, bl |-> <<<<1, 4>>, <<7, 10>>>>]}

NoTick == [kind |-> "none", stale |-> FALSE, shown |-> FALSE]

InitCamera ==
    /\ cameraReady = FALSE
    /\ isCapturing = FALSE
    /\ layout = ZeroLayout
    /\ timers = <<>>
    /\ detectingRef = FALSE
    /\ passes = <<>>
    /\ lastCornersRef = None
    /\ lastDetectAge = StaleMs
    /\ detectedCorners = None
    /\ hits = 0
    /\ cpc = "idle"
    /\ pollWait = 0
    /\ lastTick = NoTick
    /\ lastCall = "none"

\* clearTimeout(timerRef.current)
ClearRefTimer(ts) == LET keep(t) == ~t.ref IN SelectSeq(ts, keep)

\* timerRef.current = setTimeout(detectLoop, ms), detectLoop being the
\* callback of a render with the given isCapturing and layout
SetRefTimer(ts, ms, cap, lay) ==
    Append([i \in 1..Len(ts) |-> [ts[i] EXCEPT !.ref = FALSE]],
           [left |-> ms, cap |-> cap, lay |-> lay, ref |-> TRUE])

\* the detection-loop effect re-run: cleanup of the previous run, then the body
LoopEffect(ts, ready, capturing, lay) ==
    IF ready /\ ~capturing
    THEN SetRefTimer(ClearRefTimer(ts), WarmupMs, capturing, lay)
    ELSE ClearRefTimer(ts)

RemoveAt(q, i) == SubSeq(q, 1, i - 1) \o SubSeq(q, i + 1, Len(q))

\* time passes: one step of the clock.  The JS thread is idle between the handlers, so a
\* timer that is due runs before time moves on, and the onLayout of a mount
\* is delivered within the step
Tick ==
    /\ \A i \in 1..Len(timers) : timers[i].left > 0
    /\ ~layoutDue
    /\ cpc = "poll" => pollWait > 0
    /\ timers' = [i \in 1..Len(timers) |->
                    [timers[i] EXCEPT !.left = Max(0, timers[i].left - TickMs)]]
    /\ pollWait' = Max(0, pollWait - TickMs)
    /\ lastDetectAge' = Min(StaleMs, lastDetectAge + TickMs)
    /\ UNCHANGED <<cameraReady, isCapturing, layout, detectingRef, passes,
                   lastCornersRef, detectedCorners, hits, cpc, lastTick, lastCall>>

\* onCameraReady: setCameraReady(true), and the effect of the next render
CameraReady ==
    /\ cameraMounted
    /\ ~cameraReady
    /\ Len(timers) < MaxTimers
    /\ cameraReady' = TRUE
    /\ timers' = LoopEffect(timers, TRUE, isCapturing, layout)
    /\ UNCHANGED <<isCapturing, layout, detectingRef, passes, lastCornersRef,
                   lastDetectAge, detectedCorners, hits, cpc, pollWait, lastTick, lastCall>>

\* onLayout: a new layout gives a new remapCornersForPreview, so a new
\* detectLoop, so the effect runs again
LayoutChange ==
    /\ cameraMounted
    /\ Len(timers) < MaxTimers
    /\ layout = ZeroLayout
    /\ \E l \in LayoutSet \ {layout} :
          /\ layout' = l
          /\ timers' = LoopEffect(timers, cameraReady, isCapturing, l)
    /\ UNCHANGED <<cameraReady, isCapturing, detectingRef, passes, lastCornersRef,
                   lastDetectAge, detectedCorners, hits, cpc, pollWait, lastTick, lastCall>>

\* detectLoop's guard without the detectingRef test
LoopGuardNoRef(capturing, detecting) == ~capturing

\* line 102 of detectLoop, for a mounted processor and after the test of
\* cameraRef.current: TRUE to go on
LoopGuard(capturing, detecting) == ~(capturing \/ detecting)

\* a timer fires: detectLoop up to its first await
TimerFire ==
    \E i \in 1..Len(timers) :
       /\ timers[i].left = 0
       /\ timers' = RemoveAt(timers, i)
       /\ IF cameraMounted /\ LoopGuard(timers[i].cap, detectingRef)
          THEN /\ Len(passes) < MaxPasses
               /\ detectingRef' = TRUE
               /\ passes' = Append(passes, [pc |-> "snap", cap |-> timers[i].cap,
                                            lay |-> timers[i].lay,
                                            snap |-> [w |-> 0, h |-> 0]])
               /\ lastCall' = "started"
          ELSE /\ lastCall' = IF ~cameraMounted THEN "unavailable"
                               ELSE IF timers[i].cap THEN "capturing" ELSE "busy"
               /\ UNCHANGED <<detectingRef, passes>>
       /\ UNCHANGED <<cameraReady, isCapturing, layout, lastCornersRef, lastDetectAge,
                      detectedCorners, hits, cpc, pollWait, lastTick>>

\* a pass that ends without re-arming the loop
PassEndNoTimer(i) ==
    /\ detectingRef' = FALSE
    /\ passes' = RemoveAt(passes, i)
    /\ timers' = timers

\* lines 136-139: the pass ends and, by its own isCapturing, re-arms the loop
PassEnd(i) ==
    /\ detectingRef' = FALSE
    /\ passes' = RemoveAt(passes, i)
    /\ timers' = IF ~passes[i].cap
                 THEN SetRefTimer(timers, LoopMs, passes[i].cap, passes[i].lay)
                 ELSE timers

TickRecord(kind) ==
    [kind |-> kind, stale |-> lastDetectAge >= StaleMs, shown |-> detectedCorners' # None]

\* takePictureAsync({quality: 0.3}) returns a snapshot with base64
SnapDone ==
    \E i \in 1..Len(passes) : \E sn \in Snaps :
       /\ passes[i].pc = "snap"
       /\ passes' = [passes EXCEPT ![i].pc = "detect", ![i].snap = sn]
       /\ UNCHANGED <<cameraReady, isCapturing, layout, timers, detectingRef,
                      lastCornersRef, lastDetectAge, detectedCorners, hits, cpc,
                      pollWait, lastTick, lastCall>>

\* takePictureAsync returns no base64 ("nobase64") or rejects ("threw")
SnapFail ==
    \E i \in 1..Len(passes) : \E kind \in {"nobase64", "threw"} :
       /\ passes[i].pc = "snap"
       /\ Len(timers) < MaxTimers
       /\ PassEnd(i)
       /\ UNCHANGED <<cameraReady, isCapturing, layout, lastCornersRef, lastDetectAge,
                      detectedCorners, hits, cpc, pollWait, lastCall>>
       /\ lastTick' = TickRecord(kind)

\* processorRef.current.detect rejects: the catch of line 133
DetectFail ==
    \E i \in 1..Len(passes) :
       /\ passes[i].pc = "detect"
       /\ Len(timers) < MaxTimers
       /\ PassEnd(i)
       /\ UNCHANGED <<cameraReady, isCapturing, layout, lastCornersRef, lastDetectAge,
                      detectedCorners, hits, cpc, pollWait, lastCall>>
       /\ lastTick' = TickRecord("threw")

\* detect resolved with a quad: lines 113-122
DetectHit ==
    \E i \in 1..Len(passes) : \E q \in DetQuads :
       /\ passes[i].pc = "detect"
       /\ Len(timers) < MaxTimers
       /\ hits < MaxHits
       /\ LET remapped == remapCornersForPreview(q, passes[i].snap.w, passes[i].snap.h,
                                                 passes[i].lay)
              detected == IF lastCornersRef # None
                          THEN lerpCorners(lastCornersRef, remapped, <<3, 5>>)
                          ELSE remapped
          IN /\ lastCornersRef' = detected
             /\ detectedCorners' = detected
       /\ lastDetectAge' = 0
       /\ hits' = hits + 1
       /\ PassEnd(i)
       /\ lastTick' = TickRecord("hit")
       /\ UNCHANGED <<cameraReady, isCapturing, layout, cpc, pollWait, lastCall>>

\* detect resolved with null: lines 123-131
DetectMiss ==
    \E i \in 1..Len(passes) :
       /\ passes[i].pc = "detect"
       /\ Len(timers) < MaxTimers
       /\ IF lastCornersRef # None /\ lastDetectAge < StaleMs
          THEN detectedCorners' = lastCornersRef /\ UNCHANGED lastCornersRef
          ELSE lastCornersRef' = None /\ detectedCorners' = None
       /\ PassEnd(i)
       /\ lastTick' = TickRecord("miss")
       /\ UNCHANGED <<cameraReady, isCapturing, layout, lastDetectAge, hits, cpc, pollWait,
                      lastCall>>

\* a capturePhoto without the test of isCapturing
CaptureGuardOpen(capturing) == TRUE

\* line 182 of capturePhoto, for a mounted camera: TRUE to go on
CaptureGuard(capturing) == ~capturing

\* capturePhoto up to its first await, and the render its setIsCapturing(true)
\* causes: a new detectLoop, so the effect's cleanup and body
CapturePress ==
    /\ CaptureGuard(isCapturing)
    /\ isCapturing' = TRUE
    /\ timers' = LoopEffect(ClearRefTimer(timers), cameraReady, TRUE, layout)
    /\ IF detectingRef
       THEN cpc' = "poll" /\ pollWait' = PollMs
       ELSE cpc' = "shoot" /\ pollWait' = 0
    /\ UNCHANGED <<cameraReady, layout, detectingRef, passes, lastCornersRef,
                   lastDetectAge, detectedCorners, hits, lastTick, lastCall>>

\* the 50 ms wait is over: "while (detectingRef.current)" again
PollFire ==
    /\ cpc = "poll"
    /\ pollWait = 0
    /\ IF detectingRef
       THEN cpc' = "poll" /\ pollWait' = PollMs
       ELSE cpc' = "shoot" /\ pollWait' = 0
    /\ UNCHANGED <<cameraReady, isCapturing, layout, timers, detectingRef, passes,
                   lastCornersRef, lastDetectAge, detectedCorners, hits, lastTick, lastCall>>

\* the catch of capturePhoto: setIsCapturing(false), and the effect of the
\* render that follows
CaptureFailed ==
    /\ Len(timers) < MaxTimers
    /\ isCapturing' = FALSE
    /\ cpc' = "idle"
    /\ timers' = LoopEffect(timers, cameraReady, FALSE, layout)

\* takePictureAsync({quality: 1}) settles: a photo, nothing, or a rejection
ShootDone ==
    /\ cpc = "shoot"
    /\ \E out \in {"photo", "nothing", "threw"} :
          CASE out = "photo" ->
                 /\ cpc' = "read"
                 /\ UNCHANGED <<isCapturing, timers>>
            [] out = "nothing" ->
                 /\ cpc' = "ended"
                 /\ UNCHANGED <<isCapturing, timers>>
            [] out = "threw" ->
                 /\ CaptureFailed
    /\ UNCHANGED <<cameraReady, layout, detectingRef, passes, lastCornersRef,
                   lastDetectAge, detectedCorners, hits, pollWait, lastTick, lastCall>>

\* new File(photo.uri).base64() settles: onCapture is called, or the catch
ReadDone ==
    /\ cpc = "read"
    /\ \E ok \in BOOLEAN :
          IF ok THEN cpc' = "done" /\ UNCHANGED <<isCapturing, timers>>
          ELSE CaptureFailed
    /\ UNCHANGED <<cameraReady, layout, detectingRef, passes, lastCornersRef,
                   lastDetectAge, detectedCorners, hits, pollWait, lastTick, lastCall>>


InitTaps ==
    /\ capInFlight = 0
    /\ onCaptureCalls = 0
    /\ lastTap = "none"
    /\ cameraMounted = TRUE
    /\ layoutDue = FALSE

\* a tap on the overlay or on the shutter button (disabled while capturing):
\* capturePhoto goes on, or returns at line 182. After onCapture the screen
\* has left the camera step and nothing is left to tap. A tap that returns
\* at line 182 changes nothing in the component; it is taken here while the
\* full-quality picture is being taken, and lastTap keeps it until then.
CaptureTap ==
    \E target \in {"overlay", "shutter"} :
        /\ cameraMounted
        /\ cpc # "done"
        /\ target = "shutter" => ~isCapturing
        /\ IF CaptureGuard(isCapturing)
           THEN /\ CapturePress
                /\ capInFlight' = capInFlight + 1
                /\ lastTap' = "none"
                /\ UNCHANGED <<onCaptureCalls, cameraMounted, layoutDue>>
           ELSE /\ cpc = "shoot"
                /\ lastTap' = "ignored"
                /\ UNCHANGED <<camVars, capInFlight, onCaptureCalls, cameraMounted, layoutDue>>

\* takePictureAsync({quality: 1}) settles; without a photo capturePhoto returns
CaptureShot ==
    /\ ShootDone
    /\ capInFlight' = IF cpc' = "read" THEN capInFlight ELSE capInFlight - 1
    /\ lastTap' = "none"
    /\ UNCHANGED <<onCaptureCalls, cameraMounted, layoutDue>>

\* base64() settles: onCapture, or the catch, and capturePhoto returns
CaptureRead ==
    /\ ReadDone
    /\ capInFlight' = capInFlight - 1
    /\ onCaptureCalls' = IF cpc' = "done" THEN onCaptureCalls + 1 ELSE onCaptureCalls
    /\ lastTap' = "none"
    /\ UNCHANGED <<cameraMounted, layoutDue>>

\* the camera permission is no longer granted: the render of lines 216-232
\* returns the permission view, CameraView and its wrapper unmount and
\* cameraRef.current is null. The state and the pending timers of the
\* component stay. Taken here only during the warm-up, before the first
\* run of detectLoop, and while no camera call is in flight.
CameraUnmount ==
    /\ cameraMounted
    /\ cameraReady
    /\ cpc = "idle"
    /\ passes = <<>>
    /\ lastCall = "none"
    /\ cameraMounted' = FALSE
    /\ layoutDue' = FALSE
    /\ UNCHANGED <<camVars, capInFlight, onCaptureCalls, lastTap>>

\* the permission is granted again: the render of lines 234-249 is committed,
\* CameraView mounts and cameraRef.current is set. No dependency of the
\* effect has changed, so the timers stay as they are; the onLayout of the
\* new wrapper is delivered later.
CameraRemount ==
    /\ ~cameraMounted
    /\ cameraMounted' = TRUE
    /\ layoutDue' = TRUE
    /\ UNCHANGED <<camVars, capInFlight, onCaptureCalls, lastTap>>

\* onLayout of the wrapper mounted again (lines 211-213): setLayout with a
\* new object of the same size, so a new remapCornersForPreview, a new
\* detectLoop, and the effect runs again
RemountLayout ==
    /\ cameraMounted
    /\ layoutDue
    /\ Len(timers) < MaxTimers
    /\ layoutDue' = FALSE
    /\ timers' = LoopEffect(timers, cameraReady, isCapturing, layout)
    /\ UNCHANGED <<cameraReady, isCapturing, layout, detectingRef, passes, lastCornersRef,
                   lastDetectAge, detectedCorners, hits, cpc, pollWait, lastTick, lastCall,
                   capInFlight, onCaptureCalls, lastTap, cameraMounted>>

(***************************************************************************)
(* Temporal smoothing of the preview quad in double arithmetic             *)
(* (CameraScanner.tsx:61-72 and 113-122).  Coordinates are doubles of the  *)
(* kind FRound makes.                                                      *)
(***************************************************************************)
\* the literal 0.6
SmoothT == FDiv(FromInt(3), FromInt(5))

\* 2^-54, the distance from 0.25 to the next double
Ulp54 == LET p == FDiv(FromInt(1), FromInt(134217728)) IN FMul(p, p)

\* a <= b for doubles that are not negative
FLeq(a, b) == ~FAbsLess(b, a)

\* lerp of lerpCorners: v0 + (v1 - v0) * t
lerpDouble(v0, v1, t) == FAdd(v0, FMul(FSub(v1, v0), t))

\* lerpCorners on quads of doubles
lerpCornersDouble(a, b, t) ==
    LET pt(p, q) == <<lerpDouble(p[1], q[1], t), lerpDouble(p[2], q[2], t)>>
    IN [tl |-> pt(a.tl, b.tl), tr |-> pt(a.tr, b.tr),
        br |-> pt(a.br, b.br), bl |-> pt(a.bl, b.bl)]

\* 0.25, the double after it, 5/6, 0.1 and 0.9
SmoothCoords ==
    {FDiv(FromInt(1), FromInt(4)), FAdd(FDiv(FromInt(1), FromInt(4)), Ulp54),
     FDiv(FromInt(5), FromInt(6)), FDiv(FromInt(1), FromInt(10)),
     FDiv(FromInt(9), FromInt(10))}

\* the pairs <<lo, hi>> of coordinates with lo <= hi
SmoothPairs == {p \in SmoothCoords \X SmoothCoords : FLeq(p[1], p[2])}

\* quads in canonical order: tl and bl on the left, tl and tr on top
SmoothQuads ==
    {[tl |-> <<xs[1], ys[1]>>, tr |-> <<xs[2], ys[1]>>,
      br |-> <<xs[2], ys[2]>>, bl |-> <<xs[1], ys[2]>>] :
        xs \in SmoothPairs,
        ys \in {<<FDiv(FromInt(1), FromInt(10)), FDiv(FromInt(9), FromInt(10))>>,
                <<FDiv(FromInt(1), FromInt(4)), FDiv(FromInt(5), FromInt(6))>>}}

InitSmooth ==
    /\ smPc = "idle"
    /\ smPrev = None
    /\ smDet = None
    /\ smNow = 0
    /\ smLast = None
    /\ smTime = 0
    /\ smShown = None

\* lines 116-121 of detectLoop: a detection arrived, with or without a quad
\* stored by an earlier pass
SmoothDetected ==
    /\ smPc = "idle"
    /\ \E prev \in {None} \cup SmoothQuads : \E det \in SmoothQuads : \E now \in 1..2 :
          LET detected == IF prev # None THEN lerpCornersDouble(prev, det, SmoothT)
                          ELSE det
          IN /\ smPrev' = prev
             /\ smDet' = det
             /\ smNow' = now
             /\ smLast' = detected
             /\ smTime' = now
             /\ smShown' = detected
    /\ smPc' = "done"

\* the next detection
SmoothAgain ==
    /\ smPc = "done"
    /\ smPc' = "idle"
    /\ smPrev' = None
    /\ smDet' = None
    /\ smNow' = 0
    /\ smLast' = None
    /\ smTime' = 0
    /\ smShown' = None

\* tl.x <= tr.x, bl.x <= br.x, and tl.y, tr.y <= bl.y, br.y
CanonicalDouble(r) ==
    /\ FLeq(r.tl[1], r.tr[1])
    /\ FLeq(r.bl[1], r.br[1])
    /\ \A t \in {r.tl, r.tr} : \A b \in {r.bl, r.br} : FLeq(t[2], b[2])

\* v lies between a and b
BetweenDouble(a, v, b) == (FLeq(a, v) /\ FLeq(v, b)) \/ (FLeq(b, v) /\ FLeq(v, a))

\* C24: on a detection the stored and the displayed quad are the same; with
\* a quad stored before, each coordinate is prev + 0.6 * (detected - prev)
\* and lies between the two; with none, the quad is the detected one; the
\* timestamp is the current time; and from two quads in canonical order the
\* smoothed quad is in canonical order.
C24_TemporalSmoothing ==
    smPc = "done" =>
        /\ smShown = smLast
        /\ smTime = smNow
        /\ smPrev = None => smLast = smDet
        /\ smPrev # None =>
              /\ smLast = lerpCornersDouble(smPrev, smDet, SmoothT)
              /\ \A c \in {"tl", "tr", "br", "bl"} : \A k \in 1..2 :
                    BetweenDouble(smPrev[c][k], smLast[c][k], smDet[c][k])
              /\ (CanonicalDouble(smPrev) /\ CanonicalDouble(smDet))
                    => CanonicalDouble(smLast)

(***************************************************************************)
(* Properties of the camera loop                                           *)
(***************************************************************************)
\* C3: at most one preview pass is in flight, and detectingRef is set
\* exactly while one is, so that detectLoop never starts a pass over an
\* unfinished one.
C3_OnePreviewPass ==
    /\ Len(passes) <= 1
    /\ detectingRef <=> passes # <<>>

\* a timer ran detectLoop during a pass, and the pass is still the only one
C3_TimerDuringPass ==
    /\ lastCall = "busy"
    /\ Len(passes) = 1
    /\ detectingRef

\* C4: the full-quality takePictureAsync of capturePhoto never runs while a
\* preview pass (its snapshot or its detect call) is in flight.
C4_CaptureNeverOverlapsPreview ==
    ~(cpc = "shoot" /\ passes # <<>>)

\* C20: while a capture is in progress (isCapturing set by capturePhoto and
\* not yet reset) no new preview pass starts: no detectLoop run by a timer
\* takes a snapshot, and a pass that was in flight when the capture began
\* ends without rescheduling detectLoop.
C20_NoPreviewDuringCapture ==
    [][isCapturing =>
          /\ Len(passes') <= Len(passes)
          /\ Len(passes') < Len(passes) => timers' = timers]_vars

\* C21: at most one capture is in progress at a time: a capturePhoto called
\* before an earlier one has finished returns without taking a photo, and
\* onCapture is called at most once per capture.
C21_OneCaptureAtATime ==
    /\ capInFlight <= 1
    /\ onCaptureCalls <= 1
    /\ cpc \in {"poll", "shoot", "read"} <=> capInFlight = 1

\* a tap during a capture that is waiting for the full-quality photo
C21_TapDuringCapture ==
    /\ lastTap = "ignored"
    /\ cpc = "shoot"
    /\ capInFlight = 1

\* C22: every started capture ends by delivering or by resetting: once no
\* capturePhoto is running any more, onCapture has been called or
\* isCapturing is false again, so the screen never stays in the capturing
\* state without a photo.
C22_CaptureDeliversOrResets ==
    (capInFlight = 0 /\ isCapturing) => onCaptureCalls > 0

\* C23: the preview loop never silently dies: while the camera is ready and
\* no capture is in progress, after every run of detectLoop a next tick is
\* scheduled or a pass is in flight (which schedules one when it ends).
C23_LoopNeverDies ==
    (cameraReady /\ ~isCapturing) => (timers # <<>> \/ passes # <<>>)

\* C25: a preview pass whose snapshot or detect call throws leaves
\* lastCornersRef, the time of the last detection and detectedCorners as
\* they were, clears detectingRef and schedules the next run of detectLoop
\* in 400 ms.
C25_ThrowKeepsState ==
    [][(Len(passes') < Len(passes) /\ lastTick'.kind = "threw") =>
          /\ lastCornersRef' = lastCornersRef
          /\ lastDetectAge' = lastDetectAge
          /\ detectedCorners' = detectedCorners
          /\ ~detectingRef'
          /\ Len(timers') = Len(timers) + 1
          /\ timers'[Len(timers')].left = LoopMs
          /\ timers'[Len(timers')].ref]_vars

\* a pass threw while a quad was stored and shown: the quad is still there
\* and the next run is scheduled
C25_ThrowAfterDetection ==
    /\ lastTick.kind = "threw"
    /\ lastCornersRef # None
    /\ detectedCorners = lastCornersRef
    /\ ~detectingRef
    /\ \E i \in 1..Len(timers) : timers[i].left = LoopMs /\ timers[i].ref

\* C5: at the end of a preview pass that detected no document, the overlay
\* shows the last quad if and only if the last successful detection is less
\* than 1500 ms old.
C5_StaleQuadCleared ==
    lastTick.kind \in {"miss", "nobase64", "threw"}
        => (lastTick.shown <=> ~lastTick.stale)

(***************************************************************************)
(* Rectification numerics: solve, computeHomography, invert3x3 and the     *)
(* part of processImage / previewFilters that uses them.  A matrix is a    *)
(* sequence of rows of doubles; a null result is <<>>.                     *)
(***************************************************************************)
RECURSIVE PivotFrom(_, _, _, _)
PivotFrom(M, col, row, maxRow) ==
    IF row > Len(M) THEN maxRow
    ELSE PivotFrom(M, col, row + 1,
                   IF FAbsLess(M[maxRow][col], M[row][col]) THEN row ELSE maxRow)

Swap(M, i, j) == [M EXCEPT ![i] = M[j], ![j] = M[i]]

\* one row of solve's elimination loop: M[row][j] -= f * M[col][j], j >= col
EliminateRow(M, col, row) ==
    LET f == FDiv(M[row][col], M[col][col])
    IN AsSeq([j \in 1..Len(M[row]) |->
                IF j < col THEN M[row][j]
                ELSE FSub(M[row][j], FMul(f, M[col][j]))])

\* x[i] = M[i][n]; x[i] -= M[i][j] * x[j] for j = i+1 .. n-1, from j on
RECURSIVE RowRest(_, _, _, _, _)
RowRest(M, x, i, j, acc) ==
    IF j > Len(M) THEN acc
    ELSE RowRest(M, x, i, j + 1, FSub(acc, FMul(M[i][j], x[j])))

\* one round of solve's back substitution: x[i], the later x[j] being known
BackRow(M, x, i) == FDiv(RowRest(M, x, i, i + 1, M[i][Len(M) + 1]), M[i][i])

\* computeHomography's A and b for the four point pairs, as solve's M: the rows
\* [sx, sy, 1, 0, 0, 0, -dx*sx, -dx*sy | dx] and [0, 0, 0, sx, sy, 1, -dy*sx, -dy*sy | dy]
HomographySystem(srcPts, dstPts) ==
    AsSeq([r \in 1..8 |->
        LET i == (r + 1) \div 2
            sx == srcPts[i][1]
            sy == srcPts[i][2]
            d == dstPts[i][IF r % 2 = 1 THEN 1 ELSE 2]
            p == AsSeq([n \in 1..2 |-> FMul(FNeg(d), srcPts[i][n])])
        IN IF r % 2 = 1 THEN <<sx, sy, F1, F0, F0, F0, p[1], p[2], d>>
           ELSE <<F0, F0, F0, sx, sy, F1, p[1], p[2], d>>])

\* x*y - z*w for the entries x, y, z, w of m at the four indices t
Diff2(m, t) ==
    LET p == [n \in 1..2 |-> FMul(m[t[2 * n - 1]], m[t[2 * n]])]
    IN FSub(p[1], p[2])

\* invert3x3 names m's entries a b c d e f g h k (here 1..9).  The three
\* differences of det = a*(e*k-f*h) - b*(d*k-f*g) + c*(d*h-e*g) ...
DetMinors == << <<5, 9, 6, 8>>, <<4, 9, 6, 7>>, <<4, 8, 5, 7>> >>

\* ... and the nine of the result: e*k-f*h, c*h-b*k, b*f-c*e, f*g-d*k,
\* a*k-c*g, c*d-a*f, d*h-e*g, b*g-a*h, a*e-b*d
InvMinors ==
    << <<5, 9, 6, 8>>, <<3, 8, 2, 9>>, <<2, 6, 3, 5>>,
       <<6, 7, 4, 9>>, <<1, 9, 3, 7>>, <<3, 4, 1, 6>>,
       <<4, 8, 5, 7>>, <<2, 7, 1, 8>>, <<1, 5, 2, 4>> >>

invert3x3(m) ==
    LET tab == DetMinors \o InvMinors
        D == AsSeq([n \in 1..12 |-> Diff2(m, tab[n])])
        T == AsSeq([n \in 1..3 |-> FMul(m[n], D[n])])
        det == FAdd(FSub(T[1], T[2]), T[3])
        inv == FDiv(F1, det)
    IN IF FAbsLess(det, Eps) THEN <<>>
       ELSE AsSeq([n \in 1..9 |-> FMul(D[n + 3], inv)])

\* floor of the square root, by bisection on lo <= root < hi
RECURSIVE ISqrt(_, _, _)
ISqrt(n, lo, hi) ==
    IF hi - lo <= 1 THEN lo
    ELSE LET mid == (lo + hi) \div 2
         IN IF mid * mid <= n THEN ISqrt(n, mid, hi) ELSE ISqrt(n, lo, mid)

\* the same for dx * dx + dy * dy beyond 31 bits
RECURSIVE ISqrtSum(_, _, _, _)
ISqrtSum(dx, dy, lo, hi) ==
    IF hi - lo <= 1 THEN lo
    ELSE LET mid == (lo + hi) \div 2
         IN IF BCmp(BTimes(BI(mid), BI(mid)),
                    BAdd(BTimes(BI(dx), BI(dx)), BTimes(BI(dy), BI(dy)))) <= 0
            THEN ISqrtSum(dx, dy, mid, hi)
            ELSE ISqrtSum(dx, dy, lo, mid)

\* Math.round(dist(p, q)) for points given in quarters of a pixel: the
\* distance is sqrt(n) / 4 for an integer n, and it rounds to the largest r
\* with 4r - 2 <= sqrt(n) (a half rounds up)
RoundDist(p, q) ==
    LET dx == Abs(p[1] - q[1])
        dy == Abs(p[2] - q[2])
    IN IF dx < 2 ^ 15 /\ dy < 2 ^ 15
       THEN (ISqrt(dx * dx + dy * dy, 0, 46341) + 2) \div 4
       ELSE (ISqrtSum(dx, dy, 0, 2 * (dx + dy)) + 2) \div 4

\* four times corners.c.x * sw and corners.c.y * sh, for a corner given in
\* quarters of the image: the pixel coordinates in quarters of a pixel
CornerPx4(c, sw, sh) == <<c[1] * sw, c[2] * sh>>

\* [corners.c.x * sw, corners.c.y * sh] as the doubles the engine computes
CornerPx(c, sw, sh) ==
    <<FMul(FDiv(FromInt(c[1]), FromInt(4)), FromInt(sw)),
      FMul(FDiv(FromInt(c[2]), FromInt(4)), FromInt(sh))>>

\* srcPts: the corners <<tl, tr, br, bl>> on a sw x sh canvas
SrcPts(corners, sw, sh) == AsSeq([i \in 1..4 |-> CornerPx(corners[i], sw, sh)])

\* the same points in quarters of a pixel
SrcPts4(corners, sw, sh) == [i \in 1..4 |-> CornerPx4(corners[i], sw, sh)]

\* dw and dh without the lower limit, src in quarters of a pixel
DstSizeNoLeast(src, least) ==
    [dw |-> Max(RoundDist(src[1], src[2]), RoundDist(src[4], src[3])),
     dh |-> Max(RoundDist(src[1], src[4]), RoundDist(src[2], src[3]))]

\* dw and dh of processImage (least = 100) and previewFilters (least = 50),
\* src in quarters of a pixel
DstSize(src, least) ==
    [dw |-> Max(Max(RoundDist(src[1], src[2]), RoundDist(src[4], src[3])), least),
     dh |-> Max(Max(RoundDist(src[1], src[4]), RoundDist(src[2], src[3])), least)]

\* dstPts = [[0,0],[dw,0],[dw,dh],[0,dh]]
DstPts(dw, dh) == <<<<0, 0>>, <<dw, 0>>, <<dw, dh>>, <<0, dh>>>>

FloatPts(pts) == AsSeq([i \in 1..4 |-> <<FromInt(pts[i][1]), FromInt(pts[i][2])>>])

(***************************************************************************)
(* ImageProcessor and the engine's message handler.  A call of process,    *)
(* detect or previewFilters is a record of `calls'; its promise is the     *)
(* fields st, val and by (the call whose response settled it, a history    *)
(* field).  Each of the three refs holds the index of the call whose       *)
(* resolve/reject it stores, or 0 for null.  What the numerics make of the *)
(* corners of a request is the subject of the steps of solve above; here   *)
(* their three outcomes are an input, and the corners and the enhancement  *)
(* mode of a call are left out.                                            *)
(***************************************************************************)
MaxCalls == 2

Kinds == {"process", "detect", "previewFilters"}

\* base64 of an image; a string atob rejects; base64 of bytes that are no image
Payloads == {"image", "notBase64", "notImage"}

\* a full-frame quad <<tl, tr, br, bl>>, in quarters of the image sides
QFull == <<<<0, 0>>, <<4, 0>>, <<4, 4>>, <<0, 4>>>>

\* what the cascade may resolve to for the "image" payload
DetectOutcomes == {<<>>, QFull}

\* how processImage / previewFilters end once the bitmap is there
RectifyOutcomes ==
    { [kind |-> "image"],
      [kind |-> "error", message |-> "Failed to compute homography"],
      [kind |-> "error", message |-> "Failed to invert homography"] }

NotReady == [kind |-> "error", message |-> "WebView not ready"]
InvalidMessage == [kind |-> "error", message |-> "Invalid message: atob"]
DecodeError == [kind |-> "error", message |-> "createImageBitmap"]
Corners(q) == [kind |-> "corners", corners |-> q]
Previews == [kind |-> "previews"]

InitProcessor ==
    /\ webViewRef = FALSE
    /\ calls = <<>>
    /\ pendingRef = 0
    /\ detectPendingRef = 0
    /\ filterPreviewsPendingRef = 0
    /\ toWebView = <<>>
    /\ decoding = {}
    /\ posted = <<>>
    /\ delivered = 0

\* the WebView mounts and webViewRef.current is set
Mount ==
    /\ ~webViewRef
    /\ webViewRef' = TRUE
    /\ UNCHANGED <<calls, pendingRef, detectPendingRef, filterPreviewsPendingRef,
                   toWebView, decoding, posted, delivered>>

NewCall(kind, payload, st, val) ==
    [kind |-> kind, payload |-> payload, st |-> st, val |-> val, by |-> IF st = "pending" THEN 0 ELSE Len(calls) + 1]

\* process(base64, corners, mode)
CallProcess ==
    /\ Len(calls) < MaxCalls
    /\ \E payload \in Payloads :
          IF ~webViewRef
          THEN /\ calls' = Append(calls, NewCall("process", payload,
                                                 "rejected", NotReady))
               /\ UNCHANGED <<pendingRef, toWebView>>
          ELSE /\ calls' = Append(calls, NewCall("process", payload,
                                                 "pending", Pending))
               /\ pendingRef' = Len(calls) + 1
               /\ toWebView' = Append(toWebView, Len(calls) + 1)
    /\ UNCHANGED <<webViewRef, detectPendingRef, filterPreviewsPendingRef,
                   decoding, posted, delivered>>

\* detect(base64): the executor of the promise
Detect(payload) ==
    IF ~webViewRef
    THEN /\ calls' = Append(calls, NewCall("detect", payload,
                                           "resolved", Corners(<<>>)))
         /\ UNCHANGED <<detectPendingRef, toWebView>>
    ELSE /\ calls' = Append(calls, NewCall("detect", payload,
                                           "pending", Pending))
         /\ detectPendingRef' = Len(calls) + 1
         /\ toWebView' = Append(toWebView, Len(calls) + 1)

CallDetect ==
    /\ Len(calls) < MaxCalls
    /\ \E payload \in Payloads : Detect(payload)
    /\ UNCHANGED <<webViewRef, pendingRef, filterPreviewsPendingRef,
                   decoding, posted, delivered>>

\* previewFilters(base64, corners)
CallPreviewFilters ==
    /\ Len(calls) < MaxCalls
    /\ \E payload \in Payloads :
          IF ~webViewRef
          THEN /\ calls' = Append(calls, NewCall("previewFilters", payload,
                                                 "rejected", NotReady))
               /\ UNCHANGED <<filterPreviewsPendingRef, toWebView>>
          ELSE /\ calls' = Append(calls, NewCall("previewFilters", payload,
                                                 "pending", Pending))
               /\ filterPreviewsPendingRef' = Len(calls) + 1
               /\ toWebView' = Append(toWebView, Len(calls) + 1)
    /\ UNCHANGED <<webViewRef, pendingRef, detectPendingRef,
                   decoding, posted, delivered>>

\* a message of the engine, with the request it answers (a history field)
Post(type, from, body) == [type |-> type, from |-> from, body |-> body]

\* the messages on their way to ImageProcessor.onMessage, oldest first
toRN == SubSeq(posted, delivered + 1, Len(posted))

\* a listener whose catch answers and whose handler goes on to decode
EngineReceiveAndDecode ==
    /\ toWebView # <<>>
    /\ LET i == Head(toWebView)
       IN /\ toWebView' = Tail(toWebView)
          /\ decoding' = decoding \cup {i}
          /\ IF calls[i].kind # "detect" /\ calls[i].payload = "notBase64"
             THEN posted' = Append(posted, Post("error", i, InvalidMessage))
             ELSE UNCHANGED posted
    /\ UNCHANGED <<webViewRef, calls, pendingRef, detectPendingRef,
                   filterPreviewsPendingRef, delivered>>

\* the engine's 'message' listener takes the next request.  atob throws inside
\* processImage / previewFilters before a promise exists, which the listener's
\* catch answers; detectDocument only assigns img.src.
EngineReceive ==
    /\ toWebView # <<>>
    /\ LET i == Head(toWebView)
       IN /\ toWebView' = Tail(toWebView)
          /\ IF calls[i].kind # "detect" /\ calls[i].payload = "notBase64"
             THEN /\ posted' = Append(posted, Post("error", i, InvalidMessage))
                  /\ UNCHANGED decoding
             ELSE /\ decoding' = decoding \cup {i}
                  /\ UNCHANGED posted
    /\ UNCHANGED <<webViewRef, calls, pendingRef, detectPendingRef,
                   filterPreviewsPendingRef, delivered>>

\* the message the engine posts for a rectification outcome
Answer(i, r, okType) ==
    IF r.kind = "error" THEN Post("error", i, [kind |-> "error", message |-> r.message])
    ELSE IF okType = "result"
    THEN Post(okType, i, r)
    ELSE Post(okType, i, Previews)

\* createImageBitmap settles for a process request: processImage's then-body
\* and the handler's then / catch
ProcessDecoded ==
    \E i \in decoding :
        /\ calls[i].kind = "process"
        /\ decoding' = decoding \ {i}
        /\ IF calls[i].payload # "image"
           THEN posted' = Append(posted, Post("error", i, DecodeError))
           ELSE \E r \in RectifyOutcomes :
                    posted' = Append(posted, Answer(i, r, "result"))
        /\ UNCHANGED <<webViewRef, calls, pendingRef, detectPendingRef,
                       filterPreviewsPendingRef, toWebView, delivered>>

\* img.onload / img.onerror for a detect request
DetectDecoded ==
    \E i \in decoding :
        /\ calls[i].kind = "detect"
        /\ decoding' = decoding \ {i}
        /\ \E q \in (IF calls[i].payload = "image" THEN DetectOutcomes ELSE {<<>>}) :
              posted' = Append(posted, Post("corners", i, Corners(q)))
        /\ UNCHANGED <<webViewRef, calls, pendingRef, detectPendingRef,
                       filterPreviewsPendingRef, toWebView, delivered>>

\* createImageBitmap settles for a previewFilters request
PreviewDecoded ==
    \E i \in decoding :
        /\ calls[i].kind = "previewFilters"
        /\ decoding' = decoding \ {i}
        /\ IF calls[i].payload # "image"
           THEN posted' = Append(posted, Post("error", i, DecodeError))
           ELSE \E r \in RectifyOutcomes :
                    posted' = Append(posted, Answer(i, r, "filterPreviews"))
        /\ UNCHANGED <<webViewRef, calls, pendingRef, detectPendingRef,
                       filterPreviewsPendingRef, toWebView, delivered>>

Settle(i, st, val, by) == [calls EXCEPT ![i].st = st, ![i].val = val, ![i].by = by]

\* ImageProcessor.onMessage: the else-if chain
OnMessage ==
    /\ toRN # <<>>
    /\ LET msg == Head(toRN)
       IN /\ delivered' = delivered + 1
          /\ IF msg.type = "result" /\ pendingRef # 0
             THEN /\ calls' = Settle(pendingRef, "resolved", msg.body, msg.from)
                  /\ pendingRef' = 0
                  /\ UNCHANGED <<detectPendingRef, filterPreviewsPendingRef>>
             ELSE IF msg.type = "error" /\ pendingRef # 0
             THEN /\ calls' = Settle(pendingRef, "rejected", msg.body, msg.from)
                  /\ pendingRef' = 0
                  /\ UNCHANGED <<detectPendingRef, filterPreviewsPendingRef>>
             ELSE IF msg.type = "corners" /\ detectPendingRef # 0
             THEN /\ calls' = Settle(detectPendingRef, "resolved", msg.body, msg.from)
                  /\ detectPendingRef' = 0
                  /\ UNCHANGED <<pendingRef, filterPreviewsPendingRef>>
             ELSE IF msg.type = "filterPreviews" /\ filterPreviewsPendingRef # 0
             THEN /\ calls' = Settle(filterPreviewsPendingRef, "resolved", msg.body, msg.from)
                  /\ filterPreviewsPendingRef' = 0
                  /\ UNCHANGED <<pendingRef, detectPendingRef>>
             ELSE IF msg.type = "error" /\ filterPreviewsPendingRef # 0
             THEN /\ calls' = Settle(filterPreviewsPendingRef, "rejected", msg.body, msg.from)
                  /\ filterPreviewsPendingRef' = 0
                  /\ UNCHANGED <<pendingRef, detectPendingRef>>
             ELSE UNCHANGED <<calls, pendingRef, detectPendingRef,
                              filterPreviewsPendingRef>>
    /\ UNCHANGED <<webViewRef, toWebView, decoding, posted>>

(***************************************************************************)
(* processImage and previewFilters from the decoded bitmap to the outcome: *)
(* the rounds of solve's loops are the steps.  The warp and the filters    *)
(* that follow a successful inversion do not fail and are left out.        *)
(***************************************************************************)
RectSizes ==
    {[ow |-> 3200, oh |-> 4000], [ow |-> 400, oh |-> 500], [ow |-> 80, oh |-> 60],
     [ow |-> 81, oh |-> 61]}

RectQuads ==
    { <<<<0, 0>>, tr, br, bl>> :
        tr \in {<<4, 0>>, <<0, 1>>, <<1, 1>>, <<2, 2>>},
        br \in {<<4, 4>>, <<0, 2>>, <<1, 1>>, <<3, 1>>, <<0, 3>>},
        bl \in {<<0, 4>>, <<0, 3>>, <<2, 1>>, <<3, 3>>, <<4, 4>>} }

NoInput == [op |-> "none", corners |-> <<>>, sw |-> 0, sh |-> 0, dw |-> 0, dh |-> 0]

InitRectify ==
    /\ rPc = "idle"
    /\ rIn = NoInput
    /\ rM = <<>>
    /\ rCol = 0
    /\ rRow = 0
    /\ rX = <<>>
    /\ rOut = Pending

\* up to the call of solve, for corners on a sw x sh source canvas
RectifyStart(op, corners, sw, sh, least) ==
    LET dst == DstSize(SrcPts4(corners, sw, sh), least)
    IN /\ rPc = "idle"
       /\ rIn' = [op |-> op, corners |-> corners, sw |-> sw, sh |-> sh,
                  dw |-> dst.dw, dh |-> dst.dh]
       /\ rM' = HomographySystem(SrcPts(corners, sw, sh),
                                  FloatPts(DstPts(dst.dw, dst.dh)))
       /\ rCol' = 1
       /\ rRow' = 0
       /\ rX' = AsSeq([i \in 1..8 |-> F0])
       /\ rPc' = "pivot"
       /\ rOut' = Pending

ProcessImageStart ==
    \E corners \in RectQuads, size \in RectSizes :
        RectifyStart("process", corners, size.ow, size.oh, 100)

PreviewFiltersStart ==
    \E corners \in RectQuads, size \in RectSizes :
        RectifyStart("previewFilters", corners,
                     Scaled(size.ow, size.ow, size.oh),
                     Scaled(size.oh, size.ow, size.oh), 50)

\* solve, one column: the pivot search, the swap and the test of the pivot
SolvePivot ==
    /\ rPc = "pivot"
    /\ LET S == Swap(rM, rCol, PivotFrom(rM, rCol, rCol + 1, rCol))
       IN IF FAbsLess(S[rCol][rCol], Eps)
          THEN /\ rOut' = [kind |-> "error", message |-> "Failed to compute homography"]
               /\ rPc' = "done"
               /\ UNCHANGED <<rM, rCol, rRow>>
          ELSE /\ rM' = S
               /\ IF rCol < Len(rM)
                  THEN rPc' = "row" /\ rRow' = rCol + 1 /\ rCol' = rCol
                  ELSE rPc' = "back" /\ rRow' = Len(rM) /\ rCol' = rCol
               /\ UNCHANGED rOut
    /\ UNCHANGED <<rIn, rX>>

\* solve, one row below the pivot
SolveRow ==
    /\ rPc = "row"
    /\ rM' = [rM EXCEPT ![rRow] = EliminateRow(rM, rCol, rRow)]
    /\ IF rRow < Len(rM)
       THEN rRow' = rRow + 1 /\ UNCHANGED <<rCol, rPc>>
       ELSE rRow' = 0 /\ rCol' = rCol + 1 /\ rPc' = "pivot"
    /\ UNCHANGED <<rIn, rX, rOut>>

\* solve, one round of the back substitution
SolveBack ==
    /\ rPc = "back"
    /\ rX' = [rX EXCEPT ![rRow] = BackRow(rM, rX, rRow)]
    /\ IF rRow > 1
       THEN rRow' = rRow - 1 /\ UNCHANGED rPc
       ELSE rRow' = 0 /\ rPc' = "invert"
    /\ UNCHANGED <<rIn, rM, rCol, rOut>>

\* H = [h0..h7, 1], invert3x3(H) and what processImage / previewFilters make of it
Invert ==
    /\ rPc = "invert"
    /\ LET H == Append(rX, F1)
           H_inv == invert3x3(H)
       IN rOut' = IF H_inv = <<>>
                  THEN [kind |-> "error", message |-> "Failed to invert homography"]
                  ELSE [kind |-> "image", width |-> rIn.dw, height |-> rIn.dh,
                        H |-> H, H_inv |-> H_inv]
    /\ rPc' = "done"
    /\ UNCHANGED <<rIn, rM, rCol, rRow, rX>>

\* the next request
RectifyAgain ==
    /\ rPc = "done"
    /\ rPc' = "idle"
    /\ rIn' = NoInput
    /\ rM' = <<>>
    /\ rCol' = 0
    /\ rRow' = 0
    /\ rX' = <<>>
    /\ rOut' = Pending

\* processImage has rectified an image with the full-image quad
FullQuadProcessed ==
    /\ rPc = "done"
    /\ rIn.op = "process"
    /\ rIn.corners = QFull

\* C17 as stated: rectifying with the full-image quad {0,0},{1,0},{1,1},{0,1}
\* produces an output whose width and height equal the source image's width
\* and height, for every source size.
C17_FullQuadKeepsSize ==
    FullQuadProcessed =>
        /\ rOut.kind = "image"
        /\ rOut.width = rIn.sw
        /\ rOut.height = rIn.sh

\* C17, amended: rectifying with the full-image quad produces an output of
\* width max(source width, 100) and height max(source height, 100), which
\* are the source's width and height when both are at least 100.
C17_FullQuadSizeAtLeast100 ==
    FullQuadProcessed =>
        /\ rOut.kind = "image"
        /\ rOut.width = Max(rIn.sw, 100)
        /\ rOut.height = Max(rIn.sh, 100)

\* a source smaller than 100 pixels rectified with the full-image quad
C17_SmallSourceRectified ==
    /\ FullQuadProcessed
    /\ rIn.sw < 100
    /\ rOut.kind = "image"

\* three of the four corners lie on one line of the source canvas
ThreeCollinear(corners, sw, sh) ==
    \E i, j, k \in 1..4 :
        /\ i < j /\ j < k
        /\ Cross(CornerPx4(corners[i], sw, sh), CornerPx4(corners[j], sw, sh),
                 CornerPx4(corners[k], sw, sh)) = 0

NumericalFailures == {"Failed to compute homography", "Failed to invert homography"}

\* C6: when computeHomography or invert3x3 returns none, the engine posts an
\* 'error' with the message and no 'result' / 'filterPreviews' for that
\* request, and once the 'error' has been handled the promise of the call that
\* made the request is rejected with that message.
C6_NumericalFailureRejectsCaller ==
    \A k \in 1..Len(posted) :
        (posted[k].type = "error" /\ posted[k].body.message \in NumericalFailures)
            => /\ \A n \in 1..Len(posted) :
                    posted[n].from = posted[k].from => posted[n].type = "error"
               /\ k <= delivered =>
                    /\ calls[posted[k].from].st = "rejected"
                    /\ calls[posted[k].from].val = posted[k].body

\* C7: processImage applied to a quad with three collinear corners ends in
\* 'Failed to compute homography' or 'Failed to invert homography', never in
\* an image.
C7_CollinearQuadFails ==
    (rPc = "done" /\ rIn.op = "process" /\ ThreeCollinear(rIn.corners, rIn.sw, rIn.sh))
        => (rOut.kind = "error" /\ rOut.message \in NumericalFailures)

\* C8: a request of any kind whose payload does not decode is answered by an
\* 'error' message, and once that is handled the caller's promise is rejected:
\* it is not resolved, neither with an image nor with the null of a miss.
C8_UndecodableIsFailure ==
    \A k \in 1..Len(posted) :
        calls[posted[k].from].payload # "image"
            => /\ posted[k].type = "error"
               /\ k <= delivered => calls[posted[k].from].st = "rejected"

\* the messages the engine has posted for request i
ResponsesTo(i) == {k \in 1..Len(posted) : posted[k].from = i}

\* the response types of the protocol for a request type
ResponseTypes(kind) ==
    IF kind = "process" THEN {"result", "error"}
    ELSE IF kind = "detect" THEN {"corners"}
    ELSE {"filterPreviews", "error"}

\* request i is with the engine: posted to the WebView and not yet answered
AtEngine(i) ==
    /\ i <= Len(calls)
    /\ \/ i \in decoding
       \/ \E k \in 1..Len(toWebView) : toWebView[k] = i

\* C13: the engine posts exactly one response for every request and never
\* retries: a 'process' request gets one 'result' or 'error', a 'detect'
\* request one 'corners' message (quad or null), a 'previewFilters' request
\* one 'filterPreviews' or 'error'.
C13_OneResponsePerRequest ==
    /\ [](\A i \in 1..Len(calls) :
            /\ Cardinality(ResponsesTo(i)) <= 1
            /\ \A k \in ResponsesTo(i) : posted[k].type \in ResponseTypes(calls[i].kind)
            /\ ResponsesTo(i) # {} => ~AtEngine(i))
    /\ \A i \in 1..MaxCalls : AtEngine(i) ~> (ResponsesTo(i) # {})

\* a process request and a detect request, both answered, nothing left to do
C13_TwoRequestsAnswered ==
    /\ Len(calls) = 2
    /\ calls[1].kind = "process" /\ calls[1].payload = "notBase64"
    /\ calls[2].kind = "detect"
    /\ ResponsesTo(1) # {} /\ ResponsesTo(2) # {}
    /\ toWebView = <<>> /\ decoding = {}

\* C26: every response settles the promise of the request that caused it:
\* a call that is settled was settled by the message posted for its own
\* request (or by its own executor), so an 'error' caused by a previewFilters
\* request never rejects a process promise, nor the other way round.
C26_ResponseSettlesOwnRequest ==
    \A i \in 1..Len(calls) : calls[i].st # "pending" => calls[i].by = i

\* every request has been answered and every answer handled
Quiescent == toWebView = <<>> /\ decoding = {} /\ toRN = <<>>

\* C27: every promise of process, detect or previewFilters is settled once
\* the engine has answered every request and the answers have been handled,
\* also when two calls of one kind were pending together.
C27_EveryPromiseSettled ==
    Quiescent => \A i \in 1..Len(calls) : calls[i].st # "pending"

(***************************************************************************)
(* The library flow of the scan screen: handlePickLibrary and resetToStart *)
(* (src/modules/document-detection/src/index.ts), with the native detector *)
(* of part_002 and the ImageProcessor above as its WebView fallback.  Each *)
(* run of handlePickLibrary is a record of `picks': where it stands, the   *)
(* asset picked, the payload its file reads to, what the native detector   *)
(* did, the quad a detector handed to this run (<<>> for none) and the     *)
(* detect call it awaits.  setImageSize writes a value nothing here reads  *)
(* and is left out; nativeScan is read off imageUri.                       *)
(* Corners are <<tl, tr, br, bl>> in twentieths of the image sides.        *)
(***************************************************************************)
\* how many images are selected, in the picker or with the scanner
MaxPicks == 2

ScreenImages == {1, 2}

DEFAULT_CORNERS == <<<<2, 2>>, <<18, 2>>, <<18, 18>>, <<2, 18>>>>

\* what the Vision request returns for an asset in which it finds a rectangle
NativeQuad(img) == <<<<3 + img, 4>>, <<16, 4>>, <<16, 16>>, <<4, 16>>>>

\* a quad of the cascade (quarters) as the screen stores it
ScreenQuad(q) == AsSeq([i \in 1..4 |-> <<5 * q[i][1], 5 * q[i][2]>>])

\* processorRef.current: attached in the commit that attaches webViewRef
processorRef == webViewRef

InitScreen ==
    /\ step = "camera"
    /\ imageUri = 0
    /\ screenCorners = DEFAULT_CORNERS
    /\ screenDetecting = FALSE
    /\ base64Ref = 0
    /\ picks = <<>>

\* the album button of the camera step: handlePickLibrary up to its first await
PickPress ==
    /\ webViewRef
    /\ step = "camera"
    /\ scan.pc # "scanner"
    /\ Len(picks) + scan.n < MaxPicks
    /\ \A i \in 1..Len(picks) : picks[i].pc # "picker"
    /\ picks' = Append(picks, [pc |-> "picker", img |-> 0, payload |-> "",
                               native |-> "", found |-> <<>>, call |-> 0])
    /\ UNCHANGED <<step, imageUri, screenCorners, screenDetecting, base64Ref>>
    /\ UNCHANGED procVars

\* the picker is cancelled or fails: return, or the outer catch's alert
PickCancel ==
    \E i \in 1..Len(picks) :
        /\ picks[i].pc = "picker"
        /\ picks' = [picks EXCEPT ![i].pc = "cancelled"]
        /\ UNCHANGED <<step, imageUri, screenCorners, screenDetecting, base64Ref>>
        /\ UNCHANGED procVars

\* the picker resolves with an asset: the setters up to `await file.base64()'
Picked ==
    \E i \in 1..Len(picks), img \in ScreenImages :
        /\ picks[i].pc = "picker"
        /\ picks' = [picks EXCEPT ![i].pc = "reading", ![i].img = img]
        /\ imageUri' = img
        /\ screenCorners' = DEFAULT_CORNERS
        /\ step' = "crop"
        /\ screenDetecting' = TRUE
        /\ result' = None
        /\ UNCHANGED base64Ref
        /\ UNCHANGED <<processing, enhanceMode, run, scan>>
        /\ UNCHANGED procVars

\* file.base64() settles: the file reads to an image or to other bytes, or
\* the read throws (the inner catch, then finally)
Base64Read ==
    \E i \in 1..Len(picks) :
        /\ picks[i].pc = "reading"
        /\ \/ \E payload \in {"image", "notImage"} :
                 /\ picks' = [picks EXCEPT ![i].pc = "native", ![i].payload = payload]
                 /\ base64Ref' = picks[i].img
                 /\ UNCHANGED screenDetecting
           \/ /\ picks' = [picks EXCEPT ![i].pc = "done"]
              /\ screenDetecting' = FALSE
              /\ UNCHANGED base64Ref
        /\ UNCHANGED <<step, imageUri, screenCorners>>
        /\ UNCHANGED procVars

\* how DocumentDetectionModule.detectDocument may end for a payload
NativeOutcomes(payload) ==
    IF payload = "image" THEN {"quad", "none", "throw"} ELSE {"throw"}

\* the native detectDocument settles
NativeDone ==
    \E i \in 1..Len(picks) : \E outcome \in NativeOutcomes(picks[i].payload) :
        /\ picks[i].pc = "native"
        /\ IF outcome = "quad"
           THEN /\ screenCorners' = NativeQuad(picks[i].img)
                /\ screenDetecting' = FALSE
                /\ picks' = [picks EXCEPT ![i].pc = "done", ![i].native = outcome,
                                          ![i].found = NativeQuad(picks[i].img)]
                /\ UNCHANGED procVars
           ELSE IF outcome = "throw" /\ processorRef
           THEN /\ Detect(picks[i].payload)
                /\ picks' = [picks EXCEPT ![i].pc = "cascade", ![i].native = outcome,
                                          ![i].call = Len(calls) + 1]
                /\ UNCHANGED <<screenCorners, screenDetecting>>
                /\ UNCHANGED <<webViewRef, pendingRef, filterPreviewsPendingRef,
                               decoding, posted, delivered>>
           ELSE /\ screenDetecting' = FALSE
                /\ picks' = [picks EXCEPT ![i].pc = "done", ![i].native = outcome]
                /\ UNCHANGED screenCorners
                /\ UNCHANGED procVars
        /\ UNCHANGED <<step, imageUri, base64Ref>>

\* the promise of processorRef.current.detect is resolved: the rest of the
\* catch, then finally
CascadeDone ==
    \E i \in 1..Len(picks) :
        /\ picks[i].pc = "cascade"
        /\ calls[picks[i].call].st = "resolved"
        /\ LET detected == calls[picks[i].call].val.corners
           IN IF detected # <<>>
              THEN /\ screenCorners' = ScreenQuad(detected)
                   /\ picks' = [picks EXCEPT ![i].pc = "done",
                                             ![i].found = ScreenQuad(detected)]
              ELSE /\ picks' = [picks EXCEPT ![i].pc = "done"]
                   /\ UNCHANGED screenCorners
        /\ screenDetecting' = FALSE
        /\ UNCHANGED <<step, imageUri, base64Ref>>
        /\ UNCHANGED procVars

\* the image the native scanner returns
ScanImage == 3

\* nativeScan: set with the scanner's image (lines 97-110), reset with the
\* picked one (121-125) and by resetToStart (208-210)
nativeScan == imageUri = ScanImage

\* where a drag in the CornerSelector leaves the corners
DragQuads == {<<<<5, 6>>, <<15, 6>>, <<15, 14>>, <<5, 14>>>>}

\* onCornersChange of the CornerSelector, which the crop step renders for an
\* image that is not the scanner's: setCorners
CornersChange ==
    /\ step = "crop"
    /\ imageUri # 0
    /\ ~nativeScan
    /\ scan.pc # "scanner"
    /\ \E q \in DragQuads \ {screenCorners} : screenCorners' = q
    /\ UNCHANGED <<step, imageUri, screenDetecting, base64Ref, picks>>
    /\ UNCHANGED procVars

\* the retake button of the crop step
resetToStart ==
    /\ step # "camera"
    /\ scan.pc # "scanner"
    /\ step' = "camera"
    /\ imageUri' = 0
    /\ result' = None
    /\ screenCorners' = DEFAULT_CORNERS
    /\ base64Ref' = 0
    /\ UNCHANGED <<screenDetecting, picks>>
    /\ UNCHANGED <<processing, enhanceMode, run, scan>>
    /\ UNCHANGED procVars

(***************************************************************************)
(* doProcess, handleNativeScan and the buttons of the crop and preview     *)
(* steps.  A result is the record of the call that resolved with it.       *)
(***************************************************************************)
FULL_CORNERS == <<<<0, 0>>, <<20, 0>>, <<20, 20>>, <<0, 20>>>>

\* the keys of ENHANCE_OPTIONS
EnhanceModes == {"bw", "gray", "color"}

IdleRun == [pc |-> "idle", uri |-> 0, corners |-> <<>>, mode |-> "", base64 |-> 0,
            call |-> 0]

InitFlow ==
    /\ result = None
    /\ processing = FALSE
    /\ enhanceMode = "bw"
    /\ run = IdleRun
    /\ scan = [pc |-> "idle", n |-> 0, sizing |-> 0]

\* process(base64, corners, mode): the executor of the promise
Process(payload) ==
    IF ~webViewRef
    THEN /\ calls' = Append(calls, NewCall("process", payload, "rejected", NotReady))
         /\ UNCHANGED <<pendingRef, toWebView>>
    ELSE /\ calls' = Append(calls, NewCall("process", payload, "pending", Pending))
         /\ pendingRef' = Len(calls) + 1
         /\ toWebView' = Append(toWebView, Len(calls) + 1)

\* line 171 of doProcess: process is called with the base64 at hand and the
\* corners and mode of the callback
ProcessCall(r, b64) ==
    /\ \E payload \in {"image", "notImage"} : Process(payload)
    /\ run' = [r EXCEPT !.pc = "processing", !.base64 = b64, !.call = Len(calls) + 1]
    /\ UNCHANGED <<webViewRef, detectPendingRef, filterPreviewsPendingRef,
                   decoding, posted, delivered>>

\* the process button of the crop step (disabled while processing): doProcess
\* up to its first await
DoProcessPress ==
    /\ step = "crop"
    /\ ~processing
    /\ scan.pc # "scanner"
    /\ Len(calls) < MaxCalls
    /\ IF imageUri = 0 \/ ~processorRef
       THEN UNCHANGED <<processing, run, procVars>>
       ELSE /\ processing' = TRUE
            /\ LET r == [IdleRun EXCEPT !.uri = imageUri, !.corners = screenCorners,
                                         !.mode = enhanceMode]
               IN IF base64Ref # 0
                  THEN ProcessCall(r, base64Ref)
                  ELSE /\ run' = [r EXCEPT !.pc = "reading"]
                       /\ UNCHANGED procVars
    /\ UNCHANGED <<scrVars, result, enhanceMode, scan>>

\* lines 167-169: file.base64() of the callback's imageUri settles
DoProcessRead ==
    /\ run.pc = "reading"
    /\ Len(calls) < MaxCalls
    /\ \/ /\ base64Ref' = run.uri
          /\ ProcessCall(run, run.uri)
          /\ UNCHANGED processing
       \/ /\ run' = IdleRun
          /\ processing' = FALSE
          /\ UNCHANGED <<base64Ref, procVars>>
    /\ UNCHANGED <<step, imageUri, screenCorners, screenDetecting, picks,
                   result, enhanceMode, scan>>

\* a catch that also moves on to the preview step
doProcessCatchToPreview ==
    /\ processing' = FALSE
    /\ step' = "preview"
    /\ UNCHANGED result

\* lines 174-178: the alert, and the finally
doProcessCatch ==
    /\ processing' = FALSE
    /\ UNCHANGED <<step, result>>

\* the promise of process settles: lines 172-173 or the catch, then finally
DoProcessSettled ==
    /\ run.pc = "processing"
    /\ calls[run.call].st # "pending"
    /\ IF calls[run.call].st = "resolved"
       THEN /\ result' = [call |-> run.call]
            /\ step' = "preview"
            /\ processing' = FALSE
       ELSE doProcessCatch
    /\ run' = IdleRun
    /\ UNCHANGED <<imageUri, screenCorners, screenDetecting, base64Ref, picks,
                   enhanceMode, scan>>
    /\ UNCHANGED procVars

\* a mode button of the crop step
SetEnhanceMode ==
    /\ step = "crop"
    /\ scan.pc # "scanner"
    /\ \E mode \in EnhanceModes \ {enhanceMode} : enhanceMode' = mode
    /\ UNCHANGED <<scrVars, result, processing, run, scan>>
    /\ UNCHANGED procVars

\* the back-to-crop button of the preview step
BackToCrop ==
    /\ step = "preview"
    /\ scan.pc # "scanner"
    /\ step' = "crop"
    /\ UNCHANGED <<imageUri, screenCorners, screenDetecting, base64Ref, picks>>
    /\ UNCHANGED flowVars
    /\ UNCHANGED procVars

\* scan.pc with no scanner open and k runs of handleNativeScan awaiting
\* Image.getSize
ScanRest(k) == IF k > 0 THEN "sizing" ELSE "idle"

\* the scan button of the camera step: handleNativeScan up to its first
\* await.  scan.n counts the runs, scan.sizing those that await Image.getSize;
\* scan.pc is "scanner" while the scanner is open
NativeScanPress ==
    /\ step = "camera"
    /\ scan.pc # "scanner"
    /\ Len(picks) + scan.n < MaxPicks
    /\ \A i \in 1..Len(picks) : picks[i].pc # "picker"
    /\ scan' = [scan EXCEPT !.pc = "scanner", !.n = scan.n + 1]
    /\ UNCHANGED <<scrVars, result, processing, enhanceMode, run>>
    /\ UNCHANGED procVars

\* scanDocument settles: cancelled, no image or an error (return or alert), or
\* an image, kept in base64Ref before Image.getSize is awaited
NativeScanned ==
    /\ scan.pc = "scanner"
    /\ \/ /\ scan' = [scan EXCEPT !.pc = ScanRest(scan.sizing)]
          /\ UNCHANGED base64Ref
       \/ /\ scan' = [scan EXCEPT !.pc = "sizing", !.sizing = scan.sizing + 1]
          /\ base64Ref' = ScanImage
    /\ UNCHANGED <<step, imageUri, screenCorners, screenDetecting, picks,
                   result, processing, enhanceMode, run>>
    /\ UNCHANGED procVars

\* a callback of Image.getSize, and lines 108-111
NativeScanSized ==
    /\ scan.sizing > 0
    /\ scan' = [scan EXCEPT !.sizing = scan.sizing - 1,
                            !.pc = IF scan.pc = "scanner" THEN "scanner"
                                   ELSE ScanRest(scan.sizing - 1)]
    /\ imageUri' = ScanImage
    /\ screenCorners' = FULL_CORNERS
    /\ result' = None
    /\ step' = "crop"
    /\ UNCHANGED <<screenDetecting, base64Ref, picks, processing, enhanceMode, run>>
    /\ UNCHANGED procVars

\* the quads the screen may hold for the image shown: the default or the
\* full frame, or what a detector found in that image
CornersFor(img) ==
    {DEFAULT_CORNERS, FULL_CORNERS, ScreenQuad(QFull)} \cup
        (IF img \in ScreenImages THEN {NativeQuad(img)} \cup DragQuads ELSE {})

\* C28: what handlePickLibrary writes after its awaits belongs to the image
\* selected now: after a reset nothing of an earlier image is kept, and in
\* the crop step the cached base64 is that of the image shown and the
\* corners are corners chosen for it, which is what doProcess hands to
\* process.
C28_StateBelongsToCurrentImage ==
    /\ step = "camera" => (imageUri = 0 => screenCorners = DEFAULT_CORNERS)
    /\ step = "crop" =>
          /\ base64Ref \in {0, imageUri}
          /\ screenCorners \in CornersFor(imageUri)

\* C29: a rejected process leaves step, result, corners and enhanceMode as
\* they were and sets processing to false; step becomes 'preview' only when
\* a process has resolved, and then the result is set, so step = 'preview'
\* implies a result that is not null.
C29_FailureKeepsState ==
    /\ [](step = "preview" => result # None)
    /\ [][(run.pc = "processing" /\ run'.pc = "idle"
                                 /\ calls[run.call].st = "rejected") =>
            /\ step' = step
            /\ result' = result
            /\ screenCorners' = screenCorners
            /\ enhanceMode' = enhanceMode
            /\ ~processing']_vars
    /\ [][(step' = "preview" /\ step # "preview") =>
            /\ run.pc = "processing"
            /\ calls[run.call].st = "resolved"
            /\ result' # None]_vars

\* a process was rejected in the crop step, after another mode was chosen
C29_RejectedInCrop ==
    /\ run.pc = "idle"
    /\ \E i \in 1..Len(calls) : calls[i].kind = "process" /\ calls[i].st = "rejected"
    /\ step = "crop"
    /\ enhanceMode = "color"
    /\ ~processing
    /\ result = None

\* C9: in handlePickLibrary the native detector is tried first; whenever it
\* supplies no quad (none or a thrown error) the WebView cascade is run, and
\* a quad the cascade finds becomes the corners; when it supplies a quad,
\* that quad becomes the corners and the cascade is not run.
C9_CascadeIsFallback ==
    [][\A i \in 1..Len(picks) :
          /\ (picks[i].pc = "native" /\ picks'[i].pc # "native")
                => IF picks'[i].native = "quad"
                   THEN screenCorners' = NativeQuad(picks[i].img) /\ calls' = calls
                   ELSE /\ picks'[i].pc = "cascade"
                        /\ Len(calls') = Len(calls) + 1
                        /\ calls'[Len(calls')].kind = "detect"
          /\ (picks[i].pc = "cascade" /\ picks'[i].pc = "done"
                                      /\ picks'[i].found # <<>>)
                => screenCorners' = picks'[i].found]_vars

\* C10: whatever the detectors do (quad, none, thrown error), picking an
\* image sets step to 'crop', the detecting flag returns to false, and when
\* a run of handlePickLibrary ends the corners are the quad a detector
\* supplied to it, or DEFAULT_CORNERS if none did (or where the user has
\* dragged them meanwhile).
C10_DetectionNeverBlocks ==
    /\ [][\A i \in 1..Len(picks) :
             /\ (picks[i].pc = "picker" /\ picks'[i].pc = "reading")
                   => step' = "crop"
             /\ (picks[i].pc # "done" /\ picks'[i].pc = "done")
                   => IF picks'[i].found # <<>>
                      THEN screenCorners' = picks'[i].found
                      ELSE screenCorners' \in {DEFAULT_CORNERS} \cup DragQuads]_vars
    /\ screenDetecting ~> ~screenDetecting

(***************************************************************************)
(* The specifications                                                      *)
(***************************************************************************)
(***************************************************************************)
(* Hysteresis of cannyEdges (src/unnamed/part_001:308-334) on a CannyW x    *)
(* CannyH image.  edges is the sequence of its pixels in row order, pixel  *)
(* (x, y) at position y * w + x + 1.                                        *)
(***************************************************************************)
CannyW == 5
CannyH == 4

strong == 255
weak == 128

CannyPixels == {<<x, y>> : x \in 0..(CannyW - 1), y \in 0..(CannyH - 1)}

CannyIdx(x, y) == y * CannyW + x + 1

\* the pixels the two for loops of a sweep visit
CannyInterior(p) == p[1] >= 1 /\ p[1] < CannyW - 1 /\ p[2] >= 1 /\ p[2] < CannyH - 1

\* the interior in the order of the loops: y outside, x inside
CannyOrder ==
    [k \in 1..((CannyW - 2) * (CannyH - 2)) |->
        <<1 + ((k - 1) % (CannyW - 2)), 1 + ((k - 1) \div (CannyW - 2))>>]

\* the four neighbours that share a side
CannyNeighbours4(x, y) ==
    {<<x, y - 1>>, <<x - 1, y>>, <<x + 1, y>>, <<x, y + 1>>}

\* the eight pixels the condition of lines 321-324 reads
CannyNeighbours(x, y) ==
    {<<x - 1, y - 1>>, <<x, y - 1>>, <<x + 1, y - 1>>, <<x - 1, y>>,
     <<x + 1, y>>, <<x - 1, y + 1>>, <<x, y + 1>>, <<x + 1, y + 1>>}

\* the body of the two for loops at pixel (x, y), on edges as it is by then
CannyVisit(e, x, y) ==
    IF e[CannyIdx(x, y)] # weak
    THEN e
    ELSE IF \E q \in CannyNeighbours(x, y) : e[CannyIdx(q[1], q[2])] = strong
         THEN [e EXCEPT ![CannyIdx(x, y)] = strong]
         ELSE e

\* one pass of the while loop from the k-th interior pixel on, in place
RECURSIVE CannySweepFrom(_, _)
CannySweepFrom(e, k) ==
    IF k > Len(CannyOrder)
    THEN e
    ELSE CannySweepFrom(CannyVisit(e, CannyOrder[k][1], CannyOrder[k][2]), k + 1)

\* lines 331-333
CannyBinary(e) == [i \in 1..Len(e) |-> IF e[i] = strong THEN 255 ELSE 0]

\* the maps lines 311-314 can leave: nonMaxSuppression writes the interior
\* only, so a border pixel has magnitude 0 and is strong only if highThresh
\* is 0, when every pixel is strong; the pixel of magnitude maxMag is strong
CannyMaps ==
    LET interior == [1..Len(CannyOrder) -> {0, weak, strong}]
        Map(f) == [i \in 1..(CannyW * CannyH) |->
                      LET x == (i - 1) % CannyW
                          y == (i - 1) \div CannyW
                      IN IF CannyInterior(<<x, y>>)
                         THEN f[(y - 1) * (CannyW - 2) + x]
                         ELSE 0]
    IN {Map(f) : f \in {g \in interior : \E k \in DOMAIN g : g[k] = strong}}
       \cup {[i \in 1..(CannyW * CannyH) |-> strong]}

InitCanny ==
    /\ cnPc = "idle"
    /\ cnIn = <<>>
    /\ cnEdges = <<>>
    /\ cnChanged = FALSE
    /\ cnSweeps = 0

\* lines 309-315: edges is classified, changed = true
CannyClassified ==
    /\ cnPc = "idle"
    /\ \E e \in CannyMaps :
          /\ cnIn' = e
          /\ cnEdges' = e
    /\ cnChanged' = TRUE
    /\ cnSweeps' = 0
    /\ cnPc' = "sweep"

\* lines 316-329: one pass of while (changed)
CannySweep ==
    /\ cnPc = "sweep"
    /\ cnChanged
    /\ cnEdges' = CannySweepFrom(cnEdges, 1)
    /\ cnChanged' = (cnEdges' # cnEdges)
    /\ cnSweeps' = cnSweeps + 1
    /\ UNCHANGED <<cnPc, cnIn>>

\* the loop is left: lines 331-334
CannyReturn ==
    /\ cnPc = "sweep"
    /\ ~cnChanged
    /\ cnEdges' = CannyBinary(cnEdges)
    /\ cnPc' = "done"
    /\ UNCHANGED <<cnIn, cnChanged, cnSweeps>>

\* two pixels that touch by a side or by a corner
CannyTouch(p, q) ==
    /\ p # q
    /\ p[1] - q[1] \in -1..1
    /\ p[2] - q[2] \in -1..1

\* the pixels of e that are strong, together with the interior weak pixels
\* that an 8-connected chain of interior weak pixels links to a strong pixel
RECURSIVE CannyLinked(_, _)
CannyLinked(e, S) ==
    LET more == {p \in CannyPixels \ S :
                    /\ CannyInterior(p)
                    /\ e[CannyIdx(p[1], p[2])] = weak
                    /\ \E q \in S : CannyTouch(p, q)}
    IN IF more = {} THEN S ELSE CannyLinked(e, S \cup more)

CannyStrong(e) == {p \in CannyPixels : e[CannyIdx(p[1], p[2])] = strong}

CannyWeakInside(e) ==
    {p \in CannyPixels : CannyInterior(p) /\ e[CannyIdx(p[1], p[2])] = weak}

\* C30: the while loop of the hysteresis ends, after at most one sweep more
\* than there are interior weak pixels; in what is returned an interior pixel
\* is an edge (255) exactly if it was strong, or weak and linked to a strong
\* pixel by an 8-connected chain of interior weak pixels, and a pixel that
\* was neither strong nor weak is not an edge.
C30_HysteresisFixedPoint ==
    /\ [](cnPc = "done" =>
            \A p \in CannyPixels :
                LET i == CannyIdx(p[1], p[2])
                IN /\ cnEdges[i] \in {0, 255}
                   /\ CannyInterior(p) =>
                        (cnEdges[i] = 255 <=> p \in CannyLinked(cnIn, CannyStrong(cnIn)))
                   /\ cnIn[i] \notin {strong, weak} => cnEdges[i] = 0)
    /\ [](cnPc # "idle" => cnSweeps <= Cardinality(CannyWeakInside(cnIn)) + 1)
    /\ (cnPc = "sweep") ~> (cnPc = "done")

\* a weak pixel that only a later sweep could reach has become an edge
C30_LinkedInLaterSweep ==
    /\ cnPc = "done"
    /\ cnSweeps >= 3
    /\ \E p \in CannyWeakInside(cnIn) : cnEdges[CannyIdx(p[1], p[2])] = 255

Init == DetInit /\ InitCamera /\ InitProcessor /\ InitRectify /\ InitScreen /\ InitQuads /\ InitOrder /\ InitWarp /\ InitBW /\ InitPreview /\ InitAds /\ InitTaps /\ InitSmooth /\ InitFlow /\ InitCanny

NextDetect ==
    \/ DetectStart /\ UNCHANGED <<camVars, procVars, rectVars, scrVars, quadVars, orderVars, warpVars, bwVars, previewVars, adVars, tapVars, smoothVars, flowVars, cannyVars>>
    \/ RansacFewEdges /\ UNCHANGED <<camVars, procVars, rectVars, scrVars, quadVars, orderVars, warpVars, bwVars, previewVars, adVars, tapVars, smoothVars, flowVars, cannyVars>>
    \/ RansacPass /\ UNCHANGED <<camVars, procVars, rectVars, scrVars, quadVars, orderVars, warpVars, bwVars, previewVars, adVars, tapVars, smoothVars, flowVars, cannyVars>>
    \/ RansacSkip /\ UNCHANGED <<camVars, procVars, rectVars, scrVars, quadVars, orderVars, warpVars, bwVars, previewVars, adVars, tapVars, smoothVars, flowVars, cannyVars>>
    \/ RansacNone /\ UNCHANGED <<camVars, procVars, rectVars, scrVars, quadVars, orderVars, warpVars, bwVars, previewVars, adVars, tapVars, smoothVars, flowVars, cannyVars>>
    \/ SegmentApprox /\ UNCHANGED <<camVars, procVars, rectVars, scrVars, quadVars, orderVars, warpVars, bwVars, previewVars, adVars, tapVars, smoothVars, flowVars, cannyVars>>
    \/ SegmentEndRound /\ UNCHANGED <<camVars, procVars, rectVars, scrVars, quadVars, orderVars, warpVars, bwVars, previewVars, adVars, tapVars, smoothVars, flowVars, cannyVars>>
    \/ ContourApprox /\ UNCHANGED <<camVars, procVars, rectVars, scrVars, quadVars, orderVars, warpVars, bwVars, previewVars, adVars, tapVars, smoothVars, flowVars, cannyVars>>
    \/ ContourEndRound /\ UNCHANGED <<camVars, procVars, rectVars, scrVars, quadVars, orderVars, warpVars, bwVars, previewVars, adVars, tapVars, smoothVars, flowVars, cannyVars>>
    \/ HoughFind /\ UNCHANGED <<camVars, procVars, rectVars, scrVars, quadVars, orderVars, warpVars, bwVars, previewVars, adVars, tapVars, smoothVars, flowVars, cannyVars>>
    \/ DetectAgain /\ UNCHANGED <<camVars, procVars, rectVars, scrVars, quadVars, orderVars, warpVars, bwVars, previewVars, adVars, tapVars, smoothVars, flowVars, cannyVars>>
SpecDetect == Init /\ [][NextDetect]_vars

NextCamera ==
    \/ Tick /\ UNCHANGED <<detVars, procVars, rectVars, scrVars, quadVars, orderVars, warpVars, bwVars, previewVars, adVars, tapVars, smoothVars, flowVars, cannyVars>>
    \/ CameraReady /\ UNCHANGED <<detVars, procVars, rectVars, scrVars, quadVars, orderVars, warpVars, bwVars, previewVars, adVars, tapVars, smoothVars, flowVars, cannyVars>>
    \/ LayoutChange /\ UNCHANGED <<detVars, procVars, rectVars, scrVars, quadVars, orderVars, warpVars, bwVars, previewVars, adVars, tapVars, smoothVars, flowVars, cannyVars>>
    \/ TimerFire /\ UNCHANGED <<detVars, procVars, rectVars, scrVars, quadVars, orderVars, warpVars, bwVars, previewVars, adVars, tapVars, smoothVars, flowVars, cannyVars>>
    \/ SnapDone /\ UNCHANGED <<detVars, procVars, rectVars, scrVars, quadVars, orderVars, warpVars, bwVars, previewVars, adVars, tapVars, smoothVars, flowVars, cannyVars>>
    \/ SnapFail /\ UNCHANGED <<detVars, procVars, rectVars, scrVars, quadVars, orderVars, warpVars, bwVars, previewVars, adVars, tapVars, smoothVars, flowVars, cannyVars>>
    \/ DetectHit /\ UNCHANGED <<detVars, procVars, rectVars, scrVars, quadVars, orderVars, warpVars, bwVars, previewVars, adVars, tapVars, smoothVars, flowVars, cannyVars>>
    \/ DetectMiss /\ UNCHANGED <<detVars, procVars, rectVars, scrVars, quadVars, orderVars, warpVars, bwVars, previewVars, adVars, tapVars, smoothVars, flowVars, cannyVars>>
    \/ DetectFail /\ UNCHANGED <<detVars, procVars, rectVars, scrVars, quadVars, orderVars, warpVars, bwVars, previewVars, adVars, tapVars, smoothVars, flowVars, cannyVars>>
    \/ CaptureTap /\ UNCHANGED <<detVars, procVars, rectVars, scrVars, quadVars, orderVars, warpVars, bwVars, previewVars, adVars, smoothVars, flowVars, cannyVars>>
    \/ PollFire /\ UNCHANGED <<detVars, procVars, rectVars, scrVars, quadVars, orderVars, warpVars, bwVars, previewVars, adVars, tapVars, smoothVars, flowVars, cannyVars>>
    \/ CaptureShot /\ UNCHANGED <<detVars, procVars, rectVars, scrVars, quadVars, orderVars, warpVars, bwVars, previewVars, adVars, smoothVars, flowVars, cannyVars>>
    \/ CaptureRead /\ UNCHANGED <<detVars, procVars, rectVars, scrVars, quadVars, orderVars, warpVars, bwVars, previewVars, adVars, smoothVars, flowVars, cannyVars>>
    \/ CameraUnmount /\ UNCHANGED <<detVars, procVars, rectVars, scrVars, quadVars, orderVars, warpVars, bwVars, previewVars, adVars, smoothVars, flowVars, cannyVars>>
    \/ CameraRemount /\ UNCHANGED <<detVars, procVars, rectVars, scrVars, quadVars, orderVars, warpVars, bwVars, previewVars, adVars, smoothVars, flowVars, cannyVars>>
    \/ RemountLayout /\ UNCHANGED <<detVars, procVars, rectVars, scrVars, quadVars, orderVars, warpVars, bwVars, previewVars, adVars, smoothVars, flowVars, cannyVars>>
SpecCamera == Init /\ [][NextCamera]_vars

NextProcessor ==
    \/ Mount /\ UNCHANGED <<detVars, camVars, rectVars, scrVars, quadVars, orderVars, warpVars, bwVars, previewVars, adVars, tapVars, smoothVars, flowVars, cannyVars>>
    \/ CallProcess /\ UNCHANGED <<detVars, camVars, rectVars, scrVars, quadVars, orderVars, warpVars, bwVars, previewVars, adVars, tapVars, smoothVars, flowVars, cannyVars>>
    \/ CallDetect /\ UNCHANGED <<detVars, camVars, rectVars, scrVars, quadVars, orderVars, warpVars, bwVars, previewVars, adVars, tapVars, smoothVars, flowVars, cannyVars>>
    \/ CallPreviewFilters /\ UNCHANGED <<detVars, camVars, rectVars, scrVars, quadVars, orderVars, warpVars, bwVars, previewVars, adVars, tapVars, smoothVars, flowVars, cannyVars>>
    \/ EngineReceive /\ UNCHANGED <<detVars, camVars, rectVars, scrVars, quadVars, orderVars, warpVars, bwVars, previewVars, adVars, tapVars, smoothVars, flowVars, cannyVars>>
    \/ ProcessDecoded /\ UNCHANGED <<detVars, camVars, rectVars, scrVars, quadVars, orderVars, warpVars, bwVars, previewVars, adVars, tapVars, smoothVars, flowVars, cannyVars>>
    \/ DetectDecoded /\ UNCHANGED <<detVars, camVars, rectVars, scrVars, quadVars, orderVars, warpVars, bwVars, previewVars, adVars, tapVars, smoothVars, flowVars, cannyVars>>
    \/ PreviewDecoded /\ UNCHANGED <<detVars, camVars, rectVars, scrVars, quadVars, orderVars, warpVars, bwVars, previewVars, adVars, tapVars, smoothVars, flowVars, cannyVars>>
    \/ OnMessage /\ UNCHANGED <<detVars, camVars, rectVars, scrVars, quadVars, orderVars, warpVars, bwVars, previewVars, adVars, tapVars, smoothVars, flowVars, cannyVars>>
SpecProcessor == Init /\ [][NextProcessor]_vars

\* the engine's listener runs for every message and every decode settles
FairProcessor ==
    /\ WF_vars(EngineReceive /\ UNCHANGED <<detVars, camVars, rectVars, scrVars, quadVars, orderVars, warpVars, bwVars, previewVars, adVars, tapVars, smoothVars, flowVars, cannyVars>>)
    /\ WF_vars(ProcessDecoded /\ UNCHANGED <<detVars, camVars, rectVars, scrVars, quadVars, orderVars, warpVars, bwVars, previewVars, adVars, tapVars, smoothVars, flowVars, cannyVars>>)
    /\ WF_vars(DetectDecoded /\ UNCHANGED <<detVars, camVars, rectVars, scrVars, quadVars, orderVars, warpVars, bwVars, previewVars, adVars, tapVars, smoothVars, flowVars, cannyVars>>)
    /\ WF_vars(PreviewDecoded /\ UNCHANGED <<detVars, camVars, rectVars, scrVars, quadVars, orderVars, warpVars, bwVars, previewVars, adVars, tapVars, smoothVars, flowVars, cannyVars>>)
SpecProcessorFair == SpecProcessor /\ FairProcessor

NextRectify ==
    \/ ProcessImageStart /\ UNCHANGED <<detVars, camVars, procVars, scrVars, quadVars, orderVars, warpVars, bwVars, previewVars, adVars, tapVars, smoothVars, flowVars, cannyVars>>
    \/ PreviewFiltersStart /\ UNCHANGED <<detVars, camVars, procVars, scrVars, quadVars, orderVars, warpVars, bwVars, previewVars, adVars, tapVars, smoothVars, flowVars, cannyVars>>
    \/ SolvePivot /\ UNCHANGED <<detVars, camVars, procVars, scrVars, quadVars, orderVars, warpVars, bwVars, previewVars, adVars, tapVars, smoothVars, flowVars, cannyVars>>
    \/ SolveRow /\ UNCHANGED <<detVars, camVars, procVars, scrVars, quadVars, orderVars, warpVars, bwVars, previewVars, adVars, tapVars, smoothVars, flowVars, cannyVars>>
    \/ SolveBack /\ UNCHANGED <<detVars, camVars, procVars, scrVars, quadVars, orderVars, warpVars, bwVars, previewVars, adVars, tapVars, smoothVars, flowVars, cannyVars>>
    \/ Invert /\ UNCHANGED <<detVars, camVars, procVars, scrVars, quadVars, orderVars, warpVars, bwVars, previewVars, adVars, tapVars, smoothVars, flowVars, cannyVars>>
    \/ RectifyAgain /\ UNCHANGED <<detVars, camVars, procVars, scrVars, quadVars, orderVars, warpVars, bwVars, previewVars, adVars, tapVars, smoothVars, flowVars, cannyVars>>
SpecRectify == Init /\ [][NextRectify]_vars

NextScreen ==
    \/ Mount /\ UNCHANGED <<detVars, camVars, rectVars, scrVars, quadVars, orderVars, warpVars, bwVars, previewVars, adVars, tapVars, smoothVars, flowVars, cannyVars>>
    \/ PickPress /\ UNCHANGED <<detVars, camVars, rectVars, quadVars, orderVars, warpVars, bwVars, previewVars, adVars, tapVars, smoothVars, flowVars, cannyVars>>
    \/ PickCancel /\ UNCHANGED <<detVars, camVars, rectVars, quadVars, orderVars, warpVars, bwVars, previewVars, adVars, tapVars, smoothVars, flowVars, cannyVars>>
    \/ Picked /\ UNCHANGED <<detVars, camVars, rectVars, quadVars, orderVars, warpVars, bwVars, previewVars, adVars, tapVars, smoothVars, cannyVars>>
    \/ Base64Read /\ UNCHANGED <<detVars, camVars, rectVars, quadVars, orderVars, warpVars, bwVars, previewVars, adVars, tapVars, smoothVars, flowVars, cannyVars>>
    \/ NativeDone /\ UNCHANGED <<detVars, camVars, rectVars, quadVars, orderVars, warpVars, bwVars, previewVars, adVars, tapVars, smoothVars, flowVars, cannyVars>>
    \/ EngineReceive /\ UNCHANGED <<detVars, camVars, rectVars, scrVars, quadVars, orderVars, warpVars, bwVars, previewVars, adVars, tapVars, smoothVars, flowVars, cannyVars>>
    \/ DetectDecoded /\ UNCHANGED <<detVars, camVars, rectVars, scrVars, quadVars, orderVars, warpVars, bwVars, previewVars, adVars, tapVars, smoothVars, flowVars, cannyVars>>
    \/ OnMessage /\ UNCHANGED <<detVars, camVars, rectVars, scrVars, quadVars, orderVars, warpVars, bwVars, previewVars, adVars, tapVars, smoothVars, flowVars, cannyVars>>
    \/ CascadeDone /\ UNCHANGED <<detVars, camVars, rectVars, quadVars, orderVars, warpVars, bwVars, previewVars, adVars, tapVars, smoothVars, flowVars, cannyVars>>
    \/ resetToStart /\ UNCHANGED <<detVars, camVars, rectVars, quadVars, orderVars, warpVars, bwVars, previewVars, adVars, tapVars, smoothVars, cannyVars>>
    \/ CornersChange /\ UNCHANGED <<detVars, camVars, rectVars, quadVars, orderVars, warpVars, bwVars, previewVars, adVars, tapVars, smoothVars, flowVars, cannyVars>>
SpecScreen == Init /\ [][NextScreen]_vars

\* every awaited promise settles and every posted message is handled
FairScreen ==
    /\ WF_vars(Base64Read /\ UNCHANGED <<detVars, camVars, rectVars, quadVars, orderVars, warpVars, bwVars, previewVars, adVars, tapVars, smoothVars, flowVars, cannyVars>>)
    /\ WF_vars(NativeDone /\ UNCHANGED <<detVars, camVars, rectVars, quadVars, orderVars, warpVars, bwVars, previewVars, adVars, tapVars, smoothVars, flowVars, cannyVars>>)
    /\ WF_vars(EngineReceive /\ UNCHANGED <<detVars, camVars, rectVars, scrVars, quadVars, orderVars, warpVars, bwVars, previewVars, adVars, tapVars, smoothVars, flowVars, cannyVars>>)
    /\ WF_vars(DetectDecoded /\ UNCHANGED <<detVars, camVars, rectVars, scrVars, quadVars, orderVars, warpVars, bwVars, previewVars, adVars, tapVars, smoothVars, flowVars, cannyVars>>)
    /\ WF_vars(OnMessage /\ UNCHANGED <<detVars, camVars, rectVars, scrVars, quadVars, orderVars, warpVars, bwVars, previewVars, adVars, tapVars, smoothVars, flowVars, cannyVars>>)
    /\ WF_vars(CascadeDone /\ UNCHANGED <<detVars, camVars, rectVars, quadVars, orderVars, warpVars, bwVars, previewVars, adVars, tapVars, smoothVars, flowVars, cannyVars>>)
SpecScreenFair == SpecScreen /\ FairScreen

NextFlow ==
    \/ Mount /\ UNCHANGED <<detVars, camVars, rectVars, scrVars, quadVars, orderVars, warpVars, bwVars, previewVars, adVars, tapVars, smoothVars, flowVars, cannyVars>>
    \/ EngineReceive /\ UNCHANGED <<detVars, camVars, rectVars, scrVars, quadVars, orderVars, warpVars, bwVars, previewVars, adVars, tapVars, smoothVars, flowVars, cannyVars>>
    \/ ProcessDecoded /\ UNCHANGED <<detVars, camVars, rectVars, scrVars, quadVars, orderVars, warpVars, bwVars, previewVars, adVars, tapVars, smoothVars, flowVars, cannyVars>>
    \/ OnMessage /\ UNCHANGED <<detVars, camVars, rectVars, scrVars, quadVars, orderVars, warpVars, bwVars, previewVars, adVars, tapVars, smoothVars, flowVars, cannyVars>>
    \/ resetToStart /\ UNCHANGED <<detVars, camVars, rectVars, quadVars, orderVars, warpVars, bwVars, previewVars, adVars, tapVars, smoothVars, cannyVars>>
    \/ DoProcessPress /\ UNCHANGED <<detVars, camVars, rectVars, quadVars, orderVars, warpVars, bwVars, previewVars, adVars, tapVars, smoothVars, cannyVars>>
    \/ DoProcessRead /\ UNCHANGED <<detVars, camVars, rectVars, quadVars, orderVars, warpVars, bwVars, previewVars, adVars, tapVars, smoothVars, cannyVars>>
    \/ DoProcessSettled /\ UNCHANGED <<detVars, camVars, rectVars, quadVars, orderVars, warpVars, bwVars, previewVars, adVars, tapVars, smoothVars, cannyVars>>
    \/ SetEnhanceMode /\ UNCHANGED <<detVars, camVars, rectVars, quadVars, orderVars, warpVars, bwVars, previewVars, adVars, tapVars, smoothVars, cannyVars>>
    \/ BackToCrop /\ UNCHANGED <<detVars, camVars, rectVars, quadVars, orderVars, warpVars, bwVars, previewVars, adVars, tapVars, smoothVars, cannyVars>>
    \/ NativeScanPress /\ UNCHANGED <<detVars, camVars, rectVars, quadVars, orderVars, warpVars, bwVars, previewVars, adVars, tapVars, smoothVars, cannyVars>>
    \/ NativeScanned /\ UNCHANGED <<detVars, camVars, rectVars, quadVars, orderVars, warpVars, bwVars, previewVars, adVars, tapVars, smoothVars, cannyVars>>
    \/ NativeScanSized /\ UNCHANGED <<detVars, camVars, rectVars, quadVars, orderVars, warpVars, bwVars, previewVars, adVars, tapVars, smoothVars, cannyVars>>
SpecFlow == Init /\ [][NextFlow]_vars

NextQuads ==
    \/ RansacReturns /\ UNCHANGED <<detVars, camVars, procVars, rectVars, scrVars, orderVars, warpVars, bwVars, previewVars, adVars, tapVars, smoothVars, flowVars, cannyVars>>
    \/ HullReturns /\ UNCHANGED <<detVars, camVars, procVars, rectVars, scrVars, orderVars, warpVars, bwVars, previewVars, adVars, tapVars, smoothVars, flowVars, cannyVars>>
    \/ HoughReturns /\ UNCHANGED <<detVars, camVars, procVars, rectVars, scrVars, orderVars, warpVars, bwVars, previewVars, adVars, tapVars, smoothVars, flowVars, cannyVars>>
    \/ NativeReturns /\ UNCHANGED <<detVars, camVars, procVars, rectVars, scrVars, orderVars, warpVars, bwVars, previewVars, adVars, tapVars, smoothVars, flowVars, cannyVars>>
    \/ QuadAgain /\ UNCHANGED <<detVars, camVars, procVars, rectVars, scrVars, orderVars, warpVars, bwVars, previewVars, adVars, tapVars, smoothVars, flowVars, cannyVars>>
SpecQuads == Init /\ [][NextQuads]_vars

NextOrder ==
    \/ OrderOnce /\ UNCHANGED <<detVars, camVars, procVars, rectVars, scrVars, quadVars, warpVars, bwVars, previewVars, adVars, tapVars, smoothVars, flowVars, cannyVars>>
    \/ OrderTwice /\ UNCHANGED <<detVars, camVars, procVars, rectVars, scrVars, quadVars, warpVars, bwVars, previewVars, adVars, tapVars, smoothVars, flowVars, cannyVars>>
    \/ OrderAgain /\ UNCHANGED <<detVars, camVars, procVars, rectVars, scrVars, quadVars, warpVars, bwVars, previewVars, adVars, tapVars, smoothVars, flowVars, cannyVars>>

SpecOrder == Init /\ [][NextOrder]_vars

NextWarp ==
    \/ WarpStart /\ UNCHANGED <<detVars, camVars, procVars, rectVars, scrVars, quadVars, orderVars, bwVars, previewVars, adVars, tapVars, smoothVars, flowVars, cannyVars>>
    \/ WarpPixel /\ UNCHANGED <<detVars, camVars, procVars, rectVars, scrVars, quadVars, orderVars, bwVars, previewVars, adVars, tapVars, smoothVars, flowVars, cannyVars>>
    \/ WarpAgain /\ UNCHANGED <<detVars, camVars, procVars, rectVars, scrVars, quadVars, orderVars, bwVars, previewVars, adVars, tapVars, smoothVars, flowVars, cannyVars>>

SpecWarp == Init /\ [][NextWarp]_vars

NextBW ==
    \/ EnhanceBWCall /\ UNCHANGED <<detVars, camVars, procVars, rectVars, scrVars, quadVars, orderVars, warpVars, previewVars, adVars, tapVars, smoothVars, flowVars, cannyVars>>
    \/ EnhanceBWAgain /\ UNCHANGED <<detVars, camVars, procVars, rectVars, scrVars, quadVars, orderVars, warpVars, previewVars, adVars, tapVars, smoothVars, flowVars, cannyVars>>

SpecBW == Init /\ [][NextBW]_vars

NextSmooth ==
    \/ SmoothDetected /\ UNCHANGED <<detVars, camVars, procVars, rectVars, scrVars, quadVars, orderVars, warpVars, bwVars, previewVars, adVars, tapVars, flowVars, cannyVars>>
    \/ SmoothAgain /\ UNCHANGED <<detVars, camVars, procVars, rectVars, scrVars, quadVars, orderVars, warpVars, bwVars, previewVars, adVars, tapVars, flowVars, cannyVars>>

SpecSmooth == Init /\ [][NextSmooth]_vars

NextPreview ==
    \/ PreviewWarp /\ UNCHANGED <<detVars, camVars, procVars, rectVars, scrVars, quadVars, orderVars, warpVars, bwVars, adVars, tapVars, smoothVars, flowVars, cannyVars>>
    \/ PreviewMode /\ UNCHANGED <<detVars, camVars, procVars, rectVars, scrVars, quadVars, orderVars, warpVars, bwVars, adVars, tapVars, smoothVars, flowVars, cannyVars>>
    \/ PreviewAgain /\ UNCHANGED <<detVars, camVars, procVars, rectVars, scrVars, quadVars, orderVars, warpVars, bwVars, adVars, tapVars, smoothVars, flowVars, cannyVars>>

SpecPreview == Init /\ [][NextPreview]_vars

NextAds ==
    \/ loadAd /\ UNCHANGED <<detVars, camVars, procVars, rectVars, scrVars, quadVars, orderVars, warpVars, bwVars, previewVars, tapVars, smoothVars, flowVars, cannyVars>>
    \/ AdLoadedEvent /\ UNCHANGED <<detVars, camVars, procVars, rectVars, scrVars, quadVars, orderVars, warpVars, bwVars, previewVars, tapVars, smoothVars, flowVars, cannyVars>>
    \/ AdErrorEvent /\ UNCHANGED <<detVars, camVars, procVars, rectVars, scrVars, quadVars, orderVars, warpVars, bwVars, previewVars, tapVars, smoothVars, flowVars, cannyVars>>
    \/ NextDay /\ UNCHANGED <<detVars, camVars, procVars, rectVars, scrVars, quadVars, orderVars, warpVars, bwVars, previewVars, tapVars, smoothVars, flowVars, cannyVars>>
    \/ checkAndShowAd /\ UNCHANGED <<detVars, camVars, procVars, rectVars, scrVars, quadVars, orderVars, warpVars, bwVars, previewVars, tapVars, smoothVars, flowVars, cannyVars>>
    \/ AdDataRead /\ UNCHANGED <<detVars, camVars, procVars, rectVars, scrVars, quadVars, orderVars, warpVars, bwVars, previewVars, tapVars, smoothVars, flowVars, cannyVars>>
    \/ AdClosed /\ UNCHANGED <<detVars, camVars, procVars, rectVars, scrVars, quadVars, orderVars, warpVars, bwVars, previewVars, tapVars, smoothVars, flowVars, cannyVars>>
    \/ AdDataSaved /\ UNCHANGED <<detVars, camVars, procVars, rectVars, scrVars, quadVars, orderVars, warpVars, bwVars, previewVars, tapVars, smoothVars, flowVars, cannyVars>>

SpecAds == Init /\ [][NextAds]_vars

NextCanny ==
    \/ CannyClassified /\ UNCHANGED <<detVars, camVars, procVars, rectVars, scrVars, quadVars, orderVars, warpVars, bwVars, previewVars, adVars, tapVars, smoothVars, flowVars>>
    \/ CannySweep /\ UNCHANGED <<detVars, camVars, procVars, rectVars, scrVars, quadVars, orderVars, warpVars, bwVars, previewVars, adVars, tapVars, smoothVars, flowVars>>
    \/ CannyReturn /\ UNCHANGED <<detVars, camVars, procVars, rectVars, scrVars, quadVars, orderVars, warpVars, bwVars, previewVars, adVars, tapVars, smoothVars, flowVars>>

SpecCanny == Init /\ [][NextCanny]_vars

\* the loop is the only thing running: a sweep that can run does run
FairCanny ==
    /\ WF_vars(CannySweep /\ UNCHANGED <<detVars, camVars, procVars, rectVars, scrVars, quadVars, orderVars, warpVars, bwVars, previewVars, adVars, tapVars, smoothVars, flowVars>>)
    /\ WF_vars(CannyReturn /\ UNCHANGED <<detVars, camVars, procVars, rectVars, scrVars, quadVars, orderVars, warpVars, bwVars, previewVars, adVars, tapVars, smoothVars, flowVars>>)
SpecCannyFair == SpecCanny /\ FairCanny

====
